---- MODULE Spec2Model ----
(***************************************************************************)
(* Analytics aggregation engine of SFC_View: compute_all / compute_sn_list *)
(* (src/analytics/compute.py, src/analytics/sn_list.py) and                *)
(* compute_error_stats / compute_error_stats_sn_list                       *)
(* (src/analytics/error_stats.py), with the pass rules of                  *)
(* src/config/pass_rules.py and the process-wide result caches of          *)
(* src/app.py.                                                             *)
(*                                                                         *)
(* Python strings are sequences of one-character strings, so that strip(), *)
(* upper(), slicing and comparison are computed character by character.    *)
(* A nullable value is <<>> (None) or <<v>>.  A datetime is the number of  *)
(* minutes since 1970-01-01 00:00 (naive local time).                      *)
(***************************************************************************)
EXTENDS Integers, Sequences, FiniteSets, TLC

VARIABLES
    rows,                      \* rows parsed from the SFC report for the request in progress
    aggregation,               \* aggregation of the last /api/query
    _last_query_result,        \* app.py cache of the last compute_all result
    _last_error_stats_result,  \* app.py cache of the last compute_error_stats result
    _bp_sn_cache_set,          \* bonepile_disposition.py in-memory bonepile SN set
    bp_sn_cache_file,          \* the SNs of the bonepile cache file BP_SN_CACHE_PATH
    pc,                        \* "input" while rows arrive, "done" once a result is cached
    _bp_sn_cache_lock,         \* bonepile_disposition.py lock: None, or the thread holding it
    bp_thread,                 \* per thread: the bonepile cache call in progress
    bp_updated,                \* the SNs of the update_bp_sn_cache calls that have returned
    bp_calls,                  \* the number of bonepile cache calls started so far
    req_thread,                \* where each thread is inside /api/query or /api/sn-list
    cache_writes,              \* history: the writes of _last_query_result, in order
    req_calls                  \* the requests made so far

\* the state of the threads calling the bonepile cache functions
bp_vars == <<_bp_sn_cache_lock, bp_thread, bp_updated, bp_calls>>

req_vars == <<req_thread, cache_writes, req_calls>>

vars == <<rows, aggregation, _last_query_result, _last_error_stats_result,
          _bp_sn_cache_set, bp_sn_cache_file, pc, bp_vars, req_vars>>

-----------------------------------------------------------------------------
(* Python str: characters, ordering, strip, upper                          *)

\* The printable ASCII characters in code-point order; Printable[i] has code 31 + i.
Printable ==
    << " ", "!", "\"", "#", "$", "%", "&", "'", "(", ")", "*", "+", ",", "-", ".", "/",
       "0", "1", "2", "3", "4", "5", "6", "7", "8", "9", ":", ";", "<", "=", ">", "?",
       "@", "A", "B", "C", "D", "E", "F", "G", "H", "I", "J", "K", "L", "M", "N", "O",
       "P", "Q", "R", "S", "T", "U", "V", "W", "X", "Y", "Z", "[", "\\", "]", "^", "_",
       "(backtick)", "a", "b", "c", "d", "e", "f", "g", "h", "i", "j", "k", "l", "m", "n", "o",
       "p", "q", "r", "s", "t", "u", "v", "w", "x", "y", "z", "{", "|", "}", "~" >>

\* ord(c), tabulated once
OrdTable == [c \in {Printable[i] : i \in 1..Len(Printable)} |->
                31 + (CHOOSE i \in 1..Len(Printable) : Printable[i] = c)]

Ord(c) == OrdTable[c]

Chr(n) == Printable[n - 31]

SetMin(S) == CHOOSE x \in S : \A y \in S : x <= y

SetMax(S) == CHOOSE x \in S : \A y \in S : y <= x

IsSpace(c) == c = " "

\* str.strip()
strip(s) ==
    LET keep == {i \in 1..Len(s) : ~IsSpace(s[i])}
    IN  IF keep = {} THEN <<>> ELSE SubSeq(s, SetMin(keep), SetMax(keep))

upper_char(c) ==
    IF Ord(c) >= Ord("a") /\ Ord(c) <= Ord("z") THEN Chr(Ord(c) - (Ord("a") - Ord("A"))) ELSE c

lower_char(c) ==
    IF Ord(c) >= Ord("A") /\ Ord(c) <= Ord("Z") THEN Chr(Ord(c) + (Ord("a") - Ord("A"))) ELSE c

\* str.upper()
upper(s) == [i \in 1..Len(s) |-> upper_char(s[i])]

\* str.lower()
lower(s) == [i \in 1..Len(s) |-> lower_char(s[i])]

\* s[:n]
prefix(s, n) == SubSeq(s, 1, IF Len(s) < n THEN Len(s) ELSE n)

\* a < b for Python strings (code-point lexicographic order)
str_lt(a, b) ==
    LET n == IF Len(a) < Len(b) THEN Len(a) ELSE Len(b)
        diff == {i \in 1..n : a[i] # b[i]}
    IN  IF diff = {} THEN Len(a) < Len(b)
        ELSE Ord(a[SetMin(diff)]) < Ord(b[SetMin(diff)])

\* s.startswith(p)
startswith(s, p) == Len(s) >= Len(p) /\ SubSeq(s, 1, Len(p)) = p

\* sorted(S) for a set of strings
RECURSIVE sorted_strings(_)
sorted_strings(S) ==
    IF S = {} THEN <<>>
    ELSE LET m == CHOOSE x \in S : \A y \in S : x = y \/ str_lt(x, y)
         IN  <<m>> \o sorted_strings(S \ {m})

\* str(n) for 0 <= n, zero-padded to w digits (strftime %Y, %m, %d)
RECURSIVE zero_padded(_, _)
zero_padded(n, w) ==
    IF w = 0 THEN <<>> ELSE zero_padded(n \div 10, w - 1) \o <<Chr(Ord("0") + (n % 10))>>

\* the elements of a sequence
Range(s) == {s[i] : i \in 1..Len(s)}

\* None and values of a nullable field
None == <<>>

Some(v) == <<v>>

-----------------------------------------------------------------------------
(* Strings of the configuration and of the inputs                          *)

S_PASS == <<"P", "A", "S", "S">>

S_FAIL == <<"F", "A", "I", "L">>

S_UNKNOWN == <<"U", "N", "K", "N", "O", "W", "N">>

S_Unknown == <<"U", "n", "k", "n", "o", "w", "n">>

S_TOTAL == <<"_", "_", "T", "O", "T", "A", "L", "_", "_">>

FLA == <<"F", "L", "A">>

FLB == <<"F", "L", "B">>

AST == <<"A", "S", "T">>

FTS == <<"F", "T", "S">>

FCT == <<"F", "C", "T">>

RIN == <<"R", "I", "N">>

NVL == <<"N", "V", "L">>

PN_0010_TS2 ==
    <<"6", "7", "5", "-", "2", "4", "1", "0", "9", "-", "0", "0", "1", "0", "-", "T", "S", "2">>

PN_0020_TS2 ==
    <<"6", "7", "5", "-", "2", "4", "1", "0", "9", "-", "0", "0", "2", "0", "-", "T", "S", "2">>

\* analytics_config._DEFAULT_STATIONS_ORDER, read once into app_config.STATIONS_ORDER
STATIONS_ORDER == <<FLA, FLB, AST, FTS, FCT, RIN, NVL>>

\* analytics_config._DEFAULT_CONFIG["pass_rules"]: the part-number list of each station
DEFAULT_PASS_RULES(st) == IF st = FCT THEN <<PN_0010_TS2, PN_0020_TS2>> ELSE <<>>

DEFAULT_UNKNOWN_STATION == RIN

-----------------------------------------------------------------------------
(* src/config/analytics_config.py, src/config/pass_rules.py                *)

\* get_stations_order(): no analytics_config.json override, the default list
get_stations_order == STATIONS_ORDER

\* get_pass_rules(): one list per station of the station order, plus unknown_station
get_pass_rules ==
    [stations |-> get_stations_order,
     lists |-> [st \in Range(get_stations_order) |-> DEFAULT_PASS_RULES(st)],
     unknown_station |->
        IF upper(strip(DEFAULT_UNKNOWN_STATION)) = <<>> THEN RIN
        ELSE upper(strip(DEFAULT_UNKNOWN_STATION))]

\* a faulty variant of get_pass_station_for_part_number: the lists are not consulted
get_pass_station_for_part_number_unlisted(part_number) ==
    LET rules == get_pass_rules
    IN  upper(strip(IF rules.unknown_station = <<>> THEN RIN ELSE rules.unknown_station))

\* pass_rules.get_pass_station_for_part_number (lines 9-29)
get_pass_station_for_part_number(part_number) ==
    LET rules == get_pass_rules
        pn == upper(strip(part_number))
        unknown == upper(strip(IF rules.unknown_station = <<>> THEN RIN
                               ELSE rules.unknown_station))
        hits == {i \in 1..Len(rules.stations) :
                    \E j \in 1..Len(rules.lists[rules.stations[i]]) :
                        upper(strip(rules.lists[rules.stations[i]][j])) = pn}
    IN  IF pn = <<>> \/ pn = S_UNKNOWN THEN unknown
        ELSE IF hits = {} THEN unknown
        ELSE upper(strip(rules.stations[SetMin(hits)]))

\* a faulty variant of is_sn_passed: only the first row is looked at
is_sn_passed_first_row(rows_for_sn) ==
    IF rows_for_sn = <<>> THEN FALSE
    ELSE LET r == Head(rows_for_sn)
             part_number == strip(r.part_number)
         IN  /\ upper(strip(r.result)) = S_PASS
             /\ part_number # <<>>
             /\ upper(part_number) # S_UNKNOWN
             /\ upper(strip(r.station)) = get_pass_station_for_part_number(part_number)

\* pass_rules.is_sn_passed (analytics.pass_fail.is_sn_passed delegates to it):
\* the loop over the rows, returning at the first qualifying row
RECURSIVE is_sn_passed(_)
is_sn_passed(rows_for_sn) ==
    IF rows_for_sn = <<>> THEN FALSE
    ELSE LET r == Head(rows_for_sn)
             result == upper(strip(r.result))
             station == upper(strip(r.station))
             part_number == strip(r.part_number)
         IN  IF result # S_PASS THEN is_sn_passed(Tail(rows_for_sn))
             ELSE IF part_number = <<>> \/ upper(part_number) = S_UNKNOWN
                  THEN is_sn_passed(Tail(rows_for_sn))
             ELSE IF station = get_pass_station_for_part_number(part_number) THEN TRUE
             ELSE is_sn_passed(Tail(rows_for_sn))

-----------------------------------------------------------------------------
(* src/analytics/bp_check.py, src/bonepile_disposition.py (cache read)     *)

\* load_bp_sn_set(): the in-memory set when loaded, else the set of the cache file
load_bp_sn_set(cache_set, cache_file) ==
    IF cache_set # None THEN cache_set[1] ELSE cache_file

\* the threads that call the bonepile cache functions
Threads == {1, 2}

\* a thread outside the bonepile cache functions
idle_call == [op |-> "idle", at |-> "idle", new_set |-> {}, local |-> {}, must |-> {},
              ret |-> {}]

\* no thread is inside a bonepile cache function
bp_init ==
    /\ _bp_sn_cache_lock = <<>>
    /\ bp_thread = [t \in Threads |-> idle_call]
    /\ bp_updated = {}
    /\ bp_calls = 0

\* a thread outside the request handlers
idle_req ==
    [op |-> "idle", at |-> "idle", call |-> 0, user_start |-> <<>>, user_end |-> <<>>,
     agg |-> <<>>, rows |-> <<>>, computed |-> <<>>, status |-> 0, seen |-> 0, count |-> 0]

\* no thread is inside a request handler
req_init ==
    /\ req_thread = [t \in Threads |-> idle_req]
    /\ cache_writes = <<>>
    /\ req_calls = 0

\* add_bp_to_rows: is_bonepile on every row
add_bp_to_rows(rws, bp_set) ==
    [i \in 1..Len(rws) |->
        [is_bonepile |-> strip(rws[i].serial_number) \in bp_set] @@ rws[i]]

-----------------------------------------------------------------------------
(* src/analytics/compute.py                                                *)

_norm(s) == upper(strip(s))

IsDigit(c) == Ord(c) >= Ord("0") /\ Ord(c) <= Ord("9")

IsWordChar(c) ==
    \/ IsDigit(c)
    \/ Ord(c) >= Ord("A") /\ Ord(c) <= Ord("Z")
    \/ Ord(c) >= Ord("a") /\ Ord(c) <= Ord("z")
    \/ c = "_"

\* int(digits)
RECURSIVE int_of_digits(_)
int_of_digits(ds) ==
    IF ds = <<>> THEN 0
    ELSE 10 * int_of_digits(SubSeq(ds, 1, Len(ds) - 1)) + (Ord(ds[Len(ds)]) - Ord("0"))

\* str(n) for n >= 0
RECURSIVE str_of_int(_)
str_of_int(n) ==
    IF n < 10 THEN <<Chr(Ord("0") + n)>>
    ELSE str_of_int(n \div 10) \o <<Chr(Ord("0") + (n % 10))>>

\* the end of the maximal digit run starting at position i (i - 1 when there is none)
RECURSIVE digit_run_end(_, _)
digit_run_end(s, i) ==
    IF i <= Len(s) /\ IsDigit(s[i]) THEN digit_run_end(s, i + 1) ELSE i - 1

\* re.search(r"\bTS(\d+)\b", pn): the positions where the pattern matches
ts_matches(pn) ==
    {i \in 1..Len(pn) :
        /\ i + 2 <= Len(pn)
        /\ pn[i] = "T" /\ pn[i + 1] = "S"
        /\ (i = 1 \/ ~IsWordChar(pn[i - 1]))
        /\ digit_run_end(pn, i + 2) >= i + 2
        /\ (digit_run_end(pn, i + 2) = Len(pn) \/ ~IsWordChar(pn[digit_run_end(pn, i + 2) + 1]))}

_ts_group_from_part_number(part_number) ==
    LET pn == upper(part_number)
        ms == ts_matches(pn)
    IN  IF ms = {} THEN <<"T", "S", "?">>
        ELSE LET i == SetMin(ms)
             IN  <<"T", "S">> \o str_of_int(int_of_digits(SubSeq(pn, i + 2, digit_run_end(pn, i + 2))))

\* datetime.date of a naive datetime: days since 1970-01-01
\* (CA_TZ.localize attaches the zone without shifting the wall clock)
_row_to_ca_date(dt) == dt \div 1440

\* date.weekday(): Monday is 0; 1970-01-01 was a Thursday
weekday(d) == (d + 3) % 7

\* (year, month, day) of a day number in the proleptic Gregorian calendar
civil(d) ==
    LET z == d + 719468
        era == z \div 146097
        doe == z - era * 146097
        yoe == (doe - doe \div 1460 + doe \div 36524 - doe \div 146096) \div 365
        doy == doe - (365 * yoe + yoe \div 4 - yoe \div 100)
        mp == (5 * doy + 2) \div 153
        day == doy - (153 * mp + 2) \div 5 + 1
        month == IF mp < 10 THEN mp + 3 ELSE mp - 9
        year == yoe + era * 400 + (IF month <= 2 THEN 1 ELSE 0)
    IN  [year |-> year, month |-> month, day |-> day]

\* d.strftime("%Y-%m")
strftime_Y_m(d) == zero_padded(civil(d).year, 4) \o <<"-">> \o zero_padded(civil(d).month, 2)

\* d.strftime("%Y-%m-%d")
strftime_Y_m_d(d) == strftime_Y_m(d) \o <<"-">> \o zero_padded(civil(d).day, 2)

S_daily == <<"d", "a", "i", "l", "y">>

S_weekly == <<"w", "e", "e", "k", "l", "y">>

S_monthly == <<"m", "o", "n", "t", "h", "l", "y">>

_date_to_period(d, agg) ==
    IF agg = S_monthly THEN strftime_Y_m(d)
    ELSE IF agg = S_weekly
         THEN LET days_since_sunday == (weekday(d) + 1) % 7
                  week_start == d - days_since_sunday
                  week_end == week_start + 6
              IN  strftime_Y_m_d(week_start) \o <<"~">> \o strftime_Y_m_d(week_end)
    ELSE strftime_Y_m_d(d)

_row_result_to_pf(result) ==
    LET r == _norm(result)
    IN  IF r = S_PASS THEN "P" ELSE IF r = S_FAIL THEN "F" ELSE "None"

\* x or "Unknown"
or_unknown(s) == IF s = <<>> THEN S_Unknown ELSE s

\* lines 76-82: sn_tests, the rows of every non-blank SN in encounter order
group_by_sn(rws) ==
    LET keys == {strip(rws[i].serial_number) : i \in 1..Len(rws)} \ {<<>>}
    IN  [sn \in keys |-> SelectSeq(rws, LAMBDA r : strip(r.serial_number) = sn)]

\* a faulty variant of latest_scan: while no timestamp was seen, a row without timestamp
\* is taken as the latest row
RECURSIVE latest_scan_untimed(_, _, _)
latest_scan_untimed(tests, best_dt, best_pn) ==
    IF tests = <<>> THEN [dt |-> best_dt, pn |-> best_pn]
    ELSE LET r == Head(tests)
             dt_val == r.test_time_dt
         IN  IF best_dt = None \/ (dt_val # None /\ dt_val[1] > best_dt[1])
             THEN latest_scan_untimed(Tail(tests), dt_val, or_unknown(strip(r.part_number)))
             ELSE latest_scan_untimed(Tail(tests), best_dt, best_pn)

\* a faulty variant of latest_scan: of the rows with the maximum timestamp the last wins
RECURSIVE latest_scan_last_max(_, _, _)
latest_scan_last_max(tests, best_dt, best_pn) ==
    IF tests = <<>> THEN [dt |-> best_dt, pn |-> best_pn]
    ELSE LET r == Head(tests)
             dt_val == r.test_time_dt
         IN  IF dt_val # None /\ (best_dt = None \/ dt_val[1] >= best_dt[1])
             THEN latest_scan_last_max(Tail(tests), dt_val, or_unknown(strip(r.part_number)))
             ELSE latest_scan_last_max(Tail(tests), best_dt, best_pn)

\* lines 93-102: the scan for the latest row of one SN
RECURSIVE latest_scan(_, _, _)
latest_scan(tests, best_dt, best_pn) ==
    IF tests = <<>> THEN [dt |-> best_dt, pn |-> best_pn]
    ELSE LET r == Head(tests)
             dt_val == r.test_time_dt
         IN  IF dt_val # None /\ (best_dt = None \/ dt_val[1] > best_dt[1])
             THEN latest_scan(Tail(tests), dt_val, or_unknown(strip(r.part_number)))
             ELSE latest_scan(Tail(tests), best_dt, best_pn)

\* line 90
any_bonepile(tests) == \E i \in 1..Len(tests) : tests[i].is_bonepile

\* line 105
pass_total_of(sn_pass) == Cardinality({sn \in DOMAIN sn_pass : sn_pass[sn]})

\* a faulty variant of tested_bp_of: no SN counts as bonepile
tested_bp_of_none(sn_is_bp) == Cardinality({sn \in DOMAIN sn_is_bp : FALSE})

\* line 108
tested_bp_of(sn_is_bp) == Cardinality({sn \in DOMAIN sn_is_bp : sn_is_bp[sn]})

\* a faulty variant of pass_bp_of: every passed SN counts, bonepile or not
pass_bp_of_any_pass(sn_tests, sn_is_bp, sn_pass) ==
    Cardinality({sn \in DOMAIN sn_tests : sn_pass[sn]})

\* line 110
pass_bp_of(sn_tests, sn_is_bp, sn_pass) ==
    Cardinality({sn \in DOMAIN sn_tests : sn_is_bp[sn] /\ sn_pass[sn]})

\* lines 104-121
tray_summary_of(sn_tests, sn_is_bp, sn_pass) ==
    LET tested_total == Cardinality(DOMAIN sn_tests)
        pass_total == pass_total_of(sn_pass)
        fail_total == tested_total - pass_total
        tested_bp == tested_bp_of(sn_is_bp)
        tested_fresh == tested_total - tested_bp
        pass_bp == pass_bp_of(sn_tests, sn_is_bp, sn_pass)
        pass_fresh == pass_total - pass_bp
        fail_bp == tested_bp - pass_bp
        fail_fresh == tested_fresh - pass_fresh
    IN  [tested |-> [bp |-> tested_bp, fresh |-> tested_fresh, total |-> tested_total],
         pass |-> [bp |-> pass_bp, fresh |-> pass_fresh, total |-> pass_total],
         fail |-> [bp |-> fail_bp, fresh |-> fail_fresh, total |-> fail_total]]

\* line 115
summary_of(sn_tests, sn_pass) ==
    [total |-> Cardinality(DOMAIN sn_tests),
     pass |-> pass_total_of(sn_pass),
     fail |-> Cardinality(DOMAIN sn_tests) - pass_total_of(sn_pass)]

\* line 126: the SKU an SN is counted under
sku_of(sn_latest_part, sn) == or_unknown(sn_latest_part[sn])

\* line 137: the order of sku_rows.sort(key=(-tested, sku))
sku_row_lt(x, y) == x.tested > y.tested \/ (x.tested = y.tested /\ str_lt(x.sku, y.sku))

RECURSIVE sort_sku_rows(_)
sort_sku_rows(S) ==
    IF S = {} THEN <<>>
    ELSE LET m == CHOOSE x \in S : \A y \in S : x = y \/ sku_row_lt(x, y)
         IN  <<m>> \o sort_sku_rows(S \ {m})

\* lines 123-137
sku_rows_of(sn_tests, sn_pass, sn_latest_part) ==
    LET skus == {sku_of(sn_latest_part, sn) : sn \in DOMAIN sn_tests}
        stat(sku) ==
            LET sns == {sn \in DOMAIN sn_tests : sku_of(sn_latest_part, sn) = sku}
            IN  [sku |-> sku,
                 tested |-> Cardinality(sns),
                 pass |-> Cardinality({sn \in sns : sn_pass[sn]}),
                 fail |-> Cardinality({sn \in sns : ~sn_pass[sn]})]
    IN  sort_sku_rows({stat(sku) : sku \in skus})

\* lines 141-152: the period a row is bucketed under (None when the row is skipped)
row_period(r, agg) ==
    IF strip(r.serial_number) = <<>> THEN None
    ELSE IF r.test_time_dt = None THEN None
    ELSE Some(_date_to_period(_row_to_ca_date(r.test_time_dt[1]), agg))

\* lines 140-152: the period of every row, in row order
row_periods(rws, agg) == [i \in 1..Len(rws) |-> row_period(rws[i], agg)] \o <<>>

\* lines 140-152: bucket_sn_tests[period][sn], the rows of sn bucketed under period
bucket_tests(rws, periods, period, sn) ==
    LET idx == {i \in 1..Len(rws) :
                    periods[i] = Some(period) /\ strip(rws[i].serial_number) = sn}
    IN  [k \in 1..Cardinality(idx) |->
            rws[CHOOSE i \in idx : Cardinality({j \in idx : j < i}) = k - 1]] \o <<>>

\* a faulty variant of bucket_sns: an SN counts only in the period of its last bucketed row
bucket_sns_last_period(rws, periods, period) ==
    {strip(rws[i].serial_number) :
        i \in {j \in 1..Len(rws) :
                  /\ periods[j] = Some(period)
                  /\ \A k \in (j + 1)..Len(rws) :
                        strip(rws[k].serial_number) = strip(rws[j].serial_number)
                            => periods[k] \in {None, Some(period)}}}

\* lines 140-152: the SNs bucketed under period
bucket_sns(rws, periods, period) ==
    {strip(rws[i].serial_number) : i \in {j \in 1..Len(rws) : periods[j] = Some(period)}}

\* line 157
bucket_passed(rws, periods, period) ==
    Cardinality({sn \in bucket_sns(rws, periods, period) :
                    is_sn_passed(bucket_tests(rws, periods, period, sn))})

\* line 158
bucket_bp(rws, periods, period) ==
    Cardinality({sn \in bucket_sns(rws, periods, period) :
                    any_bonepile(bucket_tests(rws, periods, period, sn))})

RECURSIVE sort_breakdown_rows(_)
sort_breakdown_rows(S) ==
    IF S = {} THEN <<>>
    ELSE LET m == CHOOSE x \in S : \A y \in S : x = y \/ str_lt(x.period, y.period)
         IN  <<m>> \o sort_breakdown_rows(S \ {m})

\* lines 154-169; pass_rate is the pair <<numerator, denominator>>
breakdown_rows_of(rws, agg) ==
    LET periods == row_periods(rws, agg)
        keys == {periods[i][1] : i \in {j \in 1..Len(rws) : periods[j] # None}}
        brow(period) ==
            LET tested == Cardinality(bucket_sns(rws, periods, period))
                passed == bucket_passed(rws, periods, period)
                bp == bucket_bp(rws, periods, period)
            IN  [period |-> period,
                 tested |-> tested,
                 passed |-> passed,
                 bonepile |-> bp,
                 fresh |-> tested - bp,
                 pass_rate |-> IF tested # 0 THEN <<passed, tested>> ELSE <<0, 1>>]
    IN  sort_breakdown_rows({brow(period) : period \in keys})

\* a faulty variant of flow_hits: an SN that passed at a station is not counted among
\* the failures of the station
flow_hits_pass_wins(sn_tests) ==
    LET hits == UNION {{<<sn, _norm(sn_tests[sn][i].station),
                          _row_result_to_pf(sn_tests[sn][i].result)>> :
                            i \in {j \in 1..Len(sn_tests[sn]) :
                                /\ _norm(sn_tests[sn][j].station) \in Range(STATIONS_ORDER)
                                /\ _row_result_to_pf(sn_tests[sn][j].result) \in {"P", "F"}}} :
                       sn \in DOMAIN sn_tests}
    IN  {h \in hits : h[3] = "F" => <<h[1], h[2], "P">> \notin hits}

\* lines 176-189: the (sn, station, outcome) triples the loop adds to the sets; a row at
\* a station outside the station order, or with another result, adds nothing
flow_hits(sn_tests) ==
    UNION {{<<sn, _norm(sn_tests[sn][i].station), _row_result_to_pf(sn_tests[sn][i].result)>> :
                i \in {j \in 1..Len(sn_tests[sn]) :
                        /\ _norm(sn_tests[sn][j].station) \in Range(STATIONS_ORDER)
                        /\ _row_result_to_pf(sn_tests[sn][j].result) \in {"P", "F"}}} :
           sn \in DOMAIN sn_tests}

\* lines 173-189: total_sets[st]
total_set(hits, st, pf) == {h[1] : h \in {x \in hits : x[2] = st /\ x[3] = pf}}

\* lines 174-189: sku_sets[sku][st]
sku_set(hits, sn_latest_part, sku, st, pf) ==
    {sn \in total_set(hits, st, pf) : sku_of(sn_latest_part, sn) = sku}

\* lines 196-200: re.match(r"TS(\d+)$", ts)
ts_sort_key(ts) ==
    IF /\ Len(ts) >= 3
       /\ ts[1] = "T" /\ ts[2] = "S"
       /\ \A i \in 3..Len(ts) : IsDigit(ts[i])
    THEN <<0, int_of_digits(SubSeq(ts, 3, Len(ts)))>>
    ELSE <<1, 999>>

\* line 213: the order of test_flow_rows.sort(key=(ts_sort_key(ts), sku))
flow_row_lt(x, y) ==
    LET kx == ts_sort_key(x.ts)
        ky == ts_sort_key(y.ts)
    IN  \/ kx[1] < ky[1]
        \/ kx[1] = ky[1] /\ kx[2] < ky[2]
        \/ kx = ky /\ str_lt(x.sku, y.sku)

RECURSIVE sort_flow_rows(_)
sort_flow_rows(S) ==
    IF S = {} THEN <<>>
    ELSE LET m == CHOOSE x \in S : \A y \in S : x = y \/ flow_row_lt(x, y)
         IN  <<m>> \o sort_flow_rows(S \ {m})

\* lines 171-215
test_flow_of(sn_tests, sn_latest_part) ==
    LET stations == STATIONS_ORDER
        hits == flow_hits(sn_tests)
        skus == {sku_of(sn_latest_part, sn) : sn \in DOMAIN sn_tests}
        frow(sku) ==
            [ts |-> _ts_group_from_part_number(sku),
             sku |-> sku,
             stations |-> [st \in Range(stations) |->
                [pass |-> Cardinality(sku_set(hits, sn_latest_part, sku, st, "P")),
                 fail |-> Cardinality(sku_set(hits, sn_latest_part, sku, st, "F"))]]]
    IN  [stations |-> stations,
         totals |-> [st \in Range(stations) |->
                        [pass |-> Cardinality(total_set(hits, st, "P")),
                         fail |-> Cardinality(total_set(hits, st, "F"))]],
         rows |-> sort_flow_rows({frow(sku) : sku \in skus})]

\* lines 232-253
_empty_result(agg) ==
    [summary |-> [total |-> 0, pass |-> 0, fail |-> 0],
     tray_summary |-> [tested |-> [bp |-> 0, fresh |-> 0, total |-> 0],
                       pass |-> [bp |-> 0, fresh |-> 0, total |-> 0],
                       fail |-> [bp |-> 0, fresh |-> 0, total |-> 0]],
     sku_rows |-> <<>>,
     breakdown_rows |-> <<>>,
     test_flow |-> [stations |-> STATIONS_ORDER,
                    totals |-> [st \in Range(STATIONS_ORDER) |-> [pass |-> 0, fail |-> 0]],
                    rows |-> <<>>],
     rows |-> <<>>,
     _sn_tests |-> <<>>,
     _sn_pass |-> <<>>,
     _sn_is_bp |-> <<>>,
     _sn_latest_part |-> <<>>,
     _sn_latest_dt |-> <<>>]

\* lines 62-229; bp_set is what load_bp_sn_set() returns inside add_bp_to_rows
compute_all(rws, agg, bp_set) ==
    IF rws = <<>> THEN _empty_result(agg)
    ELSE LET rows1 == add_bp_to_rows(rws, bp_set)
             sn_tests == group_by_sn(rows1)
             sn_is_bp == [sn \in DOMAIN sn_tests |-> any_bonepile(sn_tests[sn])]
             sn_pass == [sn \in DOMAIN sn_tests |-> is_sn_passed(sn_tests[sn])]
             latest == [sn \in DOMAIN sn_tests |-> latest_scan(sn_tests[sn], None, S_Unknown)]
             sn_latest_part == [sn \in DOMAIN sn_tests |-> latest[sn].pn]
             sn_latest_dt == [sn \in DOMAIN sn_tests |-> latest[sn].dt]
         IN  [summary |-> summary_of(sn_tests, sn_pass),
              tray_summary |-> tray_summary_of(sn_tests, sn_is_bp, sn_pass),
              sku_rows |-> sku_rows_of(sn_tests, sn_pass, sn_latest_part),
              breakdown_rows |-> breakdown_rows_of(rows1, agg),
              test_flow |-> test_flow_of(sn_tests, sn_latest_part),
              rows |-> rows1,
              _sn_tests |-> sn_tests,
              _sn_pass |-> sn_pass,
              _sn_is_bp |-> sn_is_bp,
              _sn_latest_part |-> sn_latest_part,
              _sn_latest_dt |-> sn_latest_dt]

-----------------------------------------------------------------------------
(* src/analytics/sn_list.py                                                *)

M_total == <<"t", "o", "t", "a", "l">>

M_tested == <<"t", "e", "s", "t", "e", "d">>

M_pass == <<"p", "a", "s", "s">>

M_fail == <<"f", "a", "i", "l">>

M_test_flow == <<"t", "e", "s", "t", "_", "f", "l", "o", "w">>

M_tray_ == <<"t", "r", "a", "y", "_">>

M_bp == <<"b", "p">>

M_fresh == <<"f", "r", "e", "s", "h">>

M_breakdown_bonepile ==
    <<"b", "r", "e", "a", "k", "d", "o", "w", "n", "_", "b", "o", "n", "e", "p", "i", "l", "e">>

M_breakdown_fresh ==
    <<"b", "r", "e", "a", "k", "d", "o", "w", "n", "_", "f", "r", "e", "s", "h">>

\* s.split(sep) for a one-character separator
RECURSIVE split(_, _)
split(s, sep) ==
    LET at == {i \in 1..Len(s) : s[i] = sep}
    IN  IF at = {} THEN <<s>>
        ELSE <<SubSeq(s, 1, SetMin(at) - 1)>> \o split(SubSeq(s, SetMin(at) + 1, Len(s)), sep)

\* sn_list.py lines 31-39, the module's own copy of _date_to_period
sn_list_date_to_period(d, agg) ==
    IF agg = S_monthly THEN strftime_Y_m(d)
    ELSE IF agg = S_weekly
         THEN LET days_since_sunday == (weekday(d) + 1) % 7
                  week_start == d - days_since_sunday
                  week_end == week_start + 6
              IN  strftime_Y_m_d(week_start) \o <<"~">> \o strftime_Y_m_d(week_end)
    ELSE strftime_Y_m_d(d)

\* sn_list.py lines 19-28, the module's own copy of _row_to_ca_date
sn_list_row_to_ca_date(dt) == dt \div 1440

\* lines 63-75: the scan for the display row of one SN over computed["rows"]
RECURSIVE sn_latest_row_scan(_, _, _)
sn_latest_row_scan(rws, sn, existing) ==
    IF rws = <<>> THEN existing
    ELSE LET r == Head(rws)
             dt_val == r.test_time_dt
         IN  IF strip(r.serial_number) # sn THEN sn_latest_row_scan(Tail(rws), sn, existing)
             ELSE IF existing = None THEN sn_latest_row_scan(Tail(rws), sn, Some(r))
             ELSE IF dt_val # None /\ (existing[1].test_time_dt = None
                                          \/ dt_val[1] > existing[1].test_time_dt[1])
                  THEN sn_latest_row_scan(Tail(rws), sn, Some(r))
             ELSE sn_latest_row_scan(Tail(rws), sn, existing)

\* max(fail_rows, key=test_time_dt or datetime.min): the first row with the greatest key
first_max_by_dt(rs) ==
    LET key(r) == IF r.test_time_dt = None THEN -1 ELSE r.test_time_dt[1]
        best == SetMin({i \in 1..Len(rs) : \A j \in 1..Len(rs) : key(rs[j]) <= key(rs[i])})
    IN  rs[best]

\* lines 77-90
get_last_failure_msg(sn_tests, sn, station) ==
    LET tests == IF sn \in DOMAIN sn_tests THEN sn_tests[sn] ELSE <<>>
        fails == SelectSeq(tests, LAMBDA r : _norm(r.result) = S_FAIL)
        fail_rows == IF station # <<>>
                     THEN SelectSeq(fails, LAMBDA r : _norm(r.station) = _norm(station))
                     ELSE fails
    IN  IF fail_rows = <<>> THEN <<>> ELSE strip(first_max_by_dt(fail_rows).failure_msg)

\* lines 92-102 (the display string test_time of a row is not modelled)
make_sn_item(computed, sn, station) ==
    LET latest == sn_latest_row_scan(computed.rows, sn, None)
    IN  [sn |-> sn,
         part_number |-> or_unknown(computed._sn_latest_part[sn]),
         status |-> IF computed._sn_pass[sn] THEN S_PASS ELSE S_FAIL,
         last_station |-> IF latest = None THEN <<>> ELSE strip(latest[1].station),
         is_bonepile |-> computed._sn_is_bp[sn],
         last_failure_msg |-> get_last_failure_msg(computed._sn_tests, sn, station)]

\* lines 104-115: the candidates of the metric (a list without repetitions, kept as a set;
\* the result is sorted at line 183)
metric_candidates(metric, sn_tests, sn_pass) ==
    IF metric \in {M_total, M_tested} THEN DOMAIN sn_tests
    ELSE IF metric = M_pass THEN {sn \in DOMAIN sn_tests : sn_pass[sn]}
    ELSE IF metric = M_fail THEN {sn \in DOMAIN sn_tests : ~sn_pass[sn]}
    ELSE IF metric = M_test_flow THEN DOMAIN sn_tests
    ELSE {}

\* lines 117-135
tray_candidates(metric, candidates, sn_tests, sn_pass, sn_is_bp) ==
    IF ~startswith(metric, M_tray_) THEN candidates
    ELSE LET parts == split(metric, "_")
         IN  IF Len(parts) < 3 THEN candidates
             ELSE LET seg == parts[2]
                      bp_seg == parts[3]
                      by_seg == IF seg = M_tested THEN DOMAIN sn_tests
                                ELSE IF seg = M_pass THEN {sn \in DOMAIN sn_tests : sn_pass[sn]}
                                ELSE IF seg = M_fail THEN {sn \in DOMAIN sn_tests : ~sn_pass[sn]}
                                ELSE {}
                  IN  IF bp_seg = M_bp THEN {sn \in by_seg : sn_is_bp[sn]}
                      ELSE IF bp_seg = M_fresh THEN {sn \in by_seg : ~sn_is_bp[sn]}
                      ELSE by_seg

\* a faulty variant of sku_filter: the SKU is not looked at
sku_filter_off(candidates, sku, sn_latest_part) == candidates

\* lines 137-139
sku_filter(candidates, sku, sn_latest_part) ==
    IF sku # <<>> /\ sku # S_TOTAL
    THEN {sn \in candidates : or_unknown(sn_latest_part[sn]) = sku}
    ELSE candidates

\* lines 141-157
period_filter(candidates, period, sn_tests, agg) ==
    IF period # <<>> /\ period # S_TOTAL
    THEN {sn \in candidates :
            \E i \in 1..Len(sn_tests[sn]) :
                /\ sn_tests[sn][i].test_time_dt # None
                /\ sn_list_date_to_period(
                       sn_list_row_to_ca_date(sn_tests[sn][i].test_time_dt[1]), agg) = period}
    ELSE candidates

\* lines 159-163
breakdown_filter(metric, candidates, sn_is_bp) ==
    IF metric = M_breakdown_bonepile THEN {sn \in candidates : sn_is_bp[sn]}
    ELSE IF metric = M_breakdown_fresh THEN {sn \in candidates : ~sn_is_bp[sn]}
    ELSE candidates

\* a faulty variant of station_outcome_filter: any row at the station counts, whatever
\* its result
station_outcome_filter_any_result(candidates, station, outcome, sku, sn_tests, sn_latest_part) ==
    IF station # <<>> /\ outcome # <<>>
    THEN LET filtered ==
                {sn \in candidates :
                    \E i \in 1..Len(sn_tests[sn]) :
                        _norm(sn_tests[sn][i].station) = _norm(station)}
         IN  IF sku # <<>> /\ sku # S_TOTAL
             THEN {sn \in filtered : or_unknown(sn_latest_part[sn]) = sku}
             ELSE filtered
    ELSE candidates

\* lines 165-181
station_outcome_filter(candidates, station, outcome, sku, sn_tests, sn_latest_part) ==
    IF station # <<>> /\ outcome # <<>>
    THEN LET st == _norm(station)
             want_pf == IF outcome = M_pass THEN "P" ELSE "F"
             filtered ==
                {sn \in candidates :
                    \E i \in 1..Len(sn_tests[sn]) :
                        /\ _norm(sn_tests[sn][i].station) = st
                        /\ \/ want_pf = "P" /\ _norm(sn_tests[sn][i].result) = S_PASS
                           \/ want_pf = "F" /\ _norm(sn_tests[sn][i].result) = S_FAIL}
         IN  IF sku # <<>> /\ sku # S_TOTAL
             THEN {sn \in filtered : or_unknown(sn_latest_part[sn]) = sku}
             ELSE filtered
    ELSE candidates

\* lines 42-184; an absent optional argument is the empty string
compute_sn_list(computed, metric, sku, period, station, outcome, agg) ==
    LET sn_tests == computed._sn_tests
        sn_pass == computed._sn_pass
        sn_is_bp == computed._sn_is_bp
        sn_latest_part == computed._sn_latest_part
        c1 == metric_candidates(metric, sn_tests, sn_pass)
        c2 == tray_candidates(metric, c1, sn_tests, sn_pass, sn_is_bp)
        c3 == sku_filter(c2, sku, sn_latest_part)
        c4 == period_filter(c3, period, sn_tests, agg)
        c5 == breakdown_filter(metric, c4, sn_is_bp)
        c6 == station_outcome_filter(c5, station, outcome, sku, sn_tests, sn_latest_part)
        order == sorted_strings(c6)
    IN  [i \in 1..Len(order) |-> make_sn_item(computed, order[i], station)]

-----------------------------------------------------------------------------
(* src/analytics/error_stats.py                                            *)
(*                                                                         *)
(* error_stats._norm (lines 13-14) is the function _norm defined above.    *)
(* Durations are whole minutes; a value the code rounds to two decimals is *)
(* kept in hundredths of a minute, a percentage in tenths of a percent.    *)

S_NO_MSG == <<"_", "N", "O", "_", "M", "S", "G">>

S_EMPTY == <<"_", "E", "M", "P", "T", "Y">>

S_UNK == <<"_", "U", "N", "K">>

S_msg_ == <<"m", "s", "g", "_">>

S_R_ == <<"R", "_">>

S_unique_trays == <<"u", "n", "i", "q", "u", "e", "_", "t", "r", "a", "y", "s">>

HexDigits ==
    <<"0", "1", "2", "3", "4", "5", "6", "7", "8", "9", "a", "b", "c", "d", "e", "f">>

\* sum of ord(s[i]) * (i + k) over the characters of s
RECURSIVE weighted_sum(_, _)
weighted_sum(s, k) ==
    IF s = <<>> THEN 0
    ELSE weighted_sum(SubSeq(s, 1, Len(s) - 1), k) + Ord(s[Len(s)]) * (Len(s) + k)

\* hashlib.sha256(prefix).hexdigest()[:16]: sixteen lower-case hexadecimal digits that are
\* a function of the characters of the prefix (the digest itself is a checksum here)
sha256_hexdigest_16(s) == [k \in 1..16 |-> HexDigits[1 + (weighted_sum(s, k) % 16)]]

_station_group(station) ==
    LET st == _norm(station)
    IN  IF startswith(st, S_R_) /\ Len(st) > 2 THEN SubSeq(st, 3, Len(st)) ELSE st

_error_key(row) ==
    LET ec == strip(row.error_code)
        msg == strip(row.failure_msg)
        pre == strip(prefix(msg, 80))
    IN  IF ec # <<>> THEN _norm(ec)
        ELSE IF msg = <<>> THEN S_NO_MSG
        ELSE IF Len(pre) < 20 THEN (IF pre # <<>> THEN pre ELSE S_EMPTY)
        ELSE S_msg_ \o sha256_hexdigest_16(pre)

normalize_rows(rws) ==
    [i \in 1..Len(rws) |->
        [station_group |-> _station_group(rws[i].station),
         error_key |-> _error_key(rws[i])] @@ rws[i]] \o <<>>

\* _station_sort_key: (0, index in STATIONS_ORDER) or (1, st)
_station_sort_key(st) ==
    LET at == {i \in 1..Len(STATIONS_ORDER) : STATIONS_ORDER[i] = st}
    IN  IF at # {} THEN <<0, SetMin(at) - 1>> ELSE <<1, st>>

\* the order of two such keys
station_key_lt(a, b) ==
    \/ a[1] < b[1]
    \/ a[1] = b[1] /\ (IF a[1] = 0 THEN a[2] < b[2] ELSE str_lt(a[2], b[2]))

\* sorted(S, key=_station_sort_key) for a set of station groups
RECURSIVE sort_stations(_)
sort_stations(S) ==
    IF S = {} THEN <<>>
    ELSE LET m == CHOOSE x \in S : \A y \in S :
                      x = y \/ station_key_lt(_station_sort_key(x), _station_sort_key(y))
         IN  <<m>> \o sort_stations(S \ {m})

\* x.get("test_time_dt") or datetime.min, datetime.min being below every timestamp
dt_or_min(dt) == IF dt = None THEN -1 ELSE dt[1]

\* list.sort(key=test_time_dt or datetime.min) (line 80): stable, a row goes behind the
\* rows whose key is not greater
RECURSIVE insert_by_dt(_, _)
insert_by_dt(lst, r) ==
    IF lst = <<>> THEN <<r>>
    ELSE IF dt_or_min(Head(lst).test_time_dt) <= dt_or_min(r.test_time_dt)
         THEN <<Head(lst)>> \o insert_by_dt(Tail(lst), r)
    ELSE <<r>> \o lst

RECURSIVE sort_by_dt(_)
sort_by_dt(lst) ==
    IF lst = <<>> THEN <<>>
    ELSE insert_by_dt(sort_by_dt(SubSeq(lst, 1, Len(lst) - 1)), lst[Len(lst)])

\* a faulty variant of first_later_pass: a PASS later than 15 minutes after the FAIL
\* does not clear it
RECURSIVE first_later_pass_in_window(_, _)
first_later_pass_in_window(passes, fail_time) ==
    IF passes = <<>> THEN None
    ELSE LET pt == Head(passes).test_time_dt
         IN  IF pt # None /\ pt[1] > fail_time /\ pt[1] <= fail_time + 15 THEN pt
             ELSE first_later_pass_in_window(Tail(passes), fail_time)

\* a faulty variant of first_later_pass: a PASS at the time of the FAIL clears it too
RECURSIVE first_later_pass_or_same(_, _)
first_later_pass_or_same(passes, fail_time) ==
    IF passes = <<>> THEN None
    ELSE LET pt == Head(passes).test_time_dt
         IN  IF pt # None /\ pt[1] >= fail_time THEN pt
             ELSE first_later_pass_or_same(Tail(passes), fail_time)

\* lines 94-101: the first PASS of the sorted list strictly later than the FAIL
RECURSIVE first_later_pass(_, _)
first_later_pass(passes, fail_time) ==
    IF passes = <<>> THEN None
    ELSE LET pt == Head(passes).test_time_dt
         IN  IF pt # None /\ pt[1] > fail_time THEN pt
             ELSE first_later_pass(Tail(passes), fail_time)

\* infer_clear_times: the normalized rows, the FAIL rows among them carrying open,
\* clear_time and ttc_minutes
infer_clear_times(rws) ==
    LET norm_rows == normalize_rows(rws)
        pass_rows == SelectSeq(norm_rows, LAMBDA r : _norm(r.result) = S_PASS)
        pass_by_key(sn, sg) ==
            sort_by_dt(SelectSeq(pass_rows, LAMBDA r : /\ strip(r.serial_number) = sn
                                                       /\ r.station_group = sg))
        clear(r) ==
            LET sn == strip(r.serial_number)
                sg == r.station_group
            IN  IF sn = <<>> \/ sg = <<>> \/ r.test_time_dt = None THEN None
                ELSE first_later_pass(pass_by_key(sn, sg), r.test_time_dt[1])
        infer(r) ==
            IF _norm(r.result) # S_FAIL THEN r
            ELSE LET pt == clear(r)
                 IN  [open |-> pt = None,
                      clear_time |-> pt,
                      ttc_minutes |-> IF pt = None THEN None
                                      ELSE Some(pt[1] - r.test_time_dt[1])] @@ r
    IN  [i \in 1..Len(norm_rows) |-> infer(norm_rows[i])] \o <<>>

\* the non-blank SNs of a list of rows
trays_of(rs) == {strip(rs[i].serial_number) : i \in 1..Len(rs)} \ {<<>>}

\* round(100.0 * n / d, 1) in tenths of a percent
pct_tenths(n, d) == IF d = 0 THEN 0 ELSE (2000 * n + d) \div (2 * d)

\* A) compute_fail_summary_by_station
compute_fail_summary_by_station(fail_rows) ==
    LET grouped == SelectSeq(fail_rows, LAMBDA r : r.station_group # <<>>)
        by_st(sg) == SelectSeq(grouped, LAMBDA r : r.station_group = sg)
        total == Len(grouped)
        order == sort_stations({grouped[i].station_group : i \in 1..Len(grouped)})
    IN  [j \in 1..Len(order) |->
            [station_group |-> order[j],
             fail_events |-> Len(by_st(order[j])),
             unique_tray |-> Cardinality(trays_of(by_st(order[j]))),
             pct_fail_events |-> pct_tenths(Len(by_st(order[j])), total)]]

\* the keys of a dict in insertion order: the distinct values of a sequence by first
\* occurrence
RECURSIVE first_seen(_)
first_seen(s) ==
    IF s = <<>> THEN <<>>
    ELSE LET rest == first_seen(SubSeq(s, 1, Len(s) - 1))
         IN  IF s[Len(s)] \in Range(rest) THEN rest ELSE Append(rest, s[Len(s)])

\* max(d, key=d.get) for the dict d counting the values of s: the first inserted key of
\* the greatest count; "" when s is empty
max_by_count(s) ==
    IF s = <<>> THEN <<>>
    ELSE LET keys == first_seen(s)
             count(v) == Cardinality({i \in 1..Len(s) : s[i] = v})
             best == SetMax({count(keys[j]) : j \in 1..Len(keys)})
         IN  keys[SetMin({j \in 1..Len(keys) : count(keys[j]) = best})]

\* r.get("error_key") or "_UNK"
or_unk(ek) == IF ek = <<>> THEN S_UNK ELSE ek

\* line 139: (failure_msg).strip() or error_code
msg_of(r) == IF strip(r.failure_msg) # <<>> THEN strip(r.failure_msg) ELSE r.error_code

\* line 176: rows.sort(key=(-fail_events, -unique_tray)), stable
RECURSIVE insert_top_k(_, _)
insert_top_k(lst, r) ==
    IF lst = <<>> THEN <<r>>
    ELSE IF \/ r.fail_events > Head(lst).fail_events
            \/ r.fail_events = Head(lst).fail_events /\ r.unique_tray > Head(lst).unique_tray
         THEN <<r>> \o lst
    ELSE <<Head(lst)>> \o insert_top_k(Tail(lst), r)

\* a faulty variant of sort_top_k: the entries stay in the order the keys were first seen
sort_top_k_unsorted(lst) == lst

RECURSIVE sort_top_k(_)
sort_top_k(lst) ==
    IF lst = <<>> THEN <<>>
    ELSE insert_top_k(sort_top_k(SubSeq(lst, 1, Len(lst) - 1)), lst[Len(lst)])

\* B) compute_top_k_errors
compute_top_k_errors(fail_rows, top_k) ==
    LET eks == first_seen([i \in 1..Len(fail_rows) |-> or_unk(fail_rows[i].error_key)])
        of(ek) == SelectSeq(fail_rows, LAMBDA r : or_unk(r.error_key) = ek)
        messages(ek) ==
            LET rs == SelectSeq(of(ek), LAMBDA r : msg_of(r) # <<>>)
            IN  [i \in 1..Len(rs) |-> msg_of(rs[i])]
        stations(ek) == [i \in 1..Len(of(ek)) |-> of(ek)[i].station_group]
        entry(ek) ==
            [error_code |-> ek,
             representative_error_message |-> max_by_count(messages(ek)),
             fail_events |-> Len(of(ek)),
             unique_tray |-> Cardinality(trays_of(of(ek))),
             top_station_group |-> max_by_count(stations(ek))]
    IN  prefix(sort_top_k([j \in 1..Len(eks) |-> entry(eks[j])]), top_k)

\* C) compute_station_error_matrix: the rows (a row holds its counts under "counts", one
\* per top-K error key) and the column keys
compute_station_error_matrix(fail_rows, top_k_errors, station_order) ==
    LET top_codes == [j \in 1..Len(top_k_errors) |-> top_k_errors[j].error_code]
        stations_set == {fail_rows[i].station_group : i \in 1..Len(fail_rows)} \ {<<>>}
        ordered_stations == sort_stations(stations_set \cap Range(station_order))
        others == sorted_strings(stations_set \ Range(station_order))
        all_stations == ordered_stations \o others
        count(sg, ek) == Cardinality({i \in 1..Len(fail_rows) :
                                         /\ fail_rows[i].station_group = sg
                                         /\ fail_rows[i].error_key = ek})
    IN  [rows |-> [j \in 1..Len(all_stations) |->
                      [station_group |-> all_stations[j],
                       counts |-> [ek \in Range(top_codes) |-> count(all_stations[j], ek)]]],
         cols |-> top_codes]

\* line 255: out.sort(key=-fail_events), stable
RECURSIVE insert_hotspot(_, _)
insert_hotspot(lst, r) ==
    IF lst = <<>> THEN <<r>>
    ELSE IF r.fail_events > Head(lst).fail_events THEN <<r>> \o lst
    ELSE <<Head(lst)>> \o insert_hotspot(Tail(lst), r)

RECURSIVE sort_hotspots(_)
sort_hotspots(lst) ==
    IF lst = <<>> THEN <<>>
    ELSE insert_hotspot(sort_hotspots(SubSeq(lst, 1, Len(lst) - 1)), lst[Len(lst)])

\* D) compute_station_instance_hotspots
compute_station_instance_hotspots(fail_rows) ==
    LET with_si == SelectSeq(fail_rows, LAMBDA r : strip(r.station_instance) # <<>>)
        sis == first_seen([i \in 1..Len(with_si) |-> strip(with_si[i].station_instance)])
        of(si) == SelectSeq(with_si, LAMBDA r : strip(r.station_instance) = si)
        errors(si) ==
            LET rs == SelectSeq(of(si), LAMBDA r : r.error_key # <<>>)
            IN  [i \in 1..Len(rs) |-> rs[i].error_key]
        entry(si) ==
            [station_instance |-> si,
             station_group |-> of(si)[1].station_group,
             fail_events |-> Len(of(si)),
             unique_tray |-> Cardinality(trays_of(of(si))),
             top_error_code |-> max_by_count(errors(si))]
    IN  IF with_si = <<>> THEN <<>>
        ELSE sort_hotspots([j \in 1..Len(sis) |-> entry(sis[j])])

\* analytics_config._DEFAULT_CONFIG["error_stats_ttc_buckets"], its default
get_error_stats_ttc_buckets == <<5, 15, 60>>

\* analytics_config._DEFAULT_CONFIG["error_stats_p90"], 0.9 as a fraction
get_error_stats_p90 == <<9, 10>>

\* a faulty variant of _ttc_bucket: a duration above the last threshold gets a label
\* that is none of the four
_ttc_bucket_unlabelled_tail(minutes) ==
    LET buckets == get_error_stats_ttc_buckets
    IN  IF minutes <= buckets[1] THEN "<=5m"
        ELSE IF minutes <= buckets[2] THEN "5-15m"
        ELSE IF minutes <= buckets[3] THEN "15-60m"
        ELSE "60m+"

_ttc_bucket(minutes) ==
    LET buckets == get_error_stats_ttc_buckets
        b0 == IF Len(buckets) >= 1 THEN buckets[1] ELSE 5
        b1 == IF Len(buckets) >= 2 THEN buckets[2] ELSE 15
        b2 == IF Len(buckets) >= 3 THEN buckets[3] ELSE 60
    IN  IF minutes <= b0 THEN "<=5m"
        ELSE IF minutes <= b1 THEN "5-15m"
        ELSE IF minutes <= b2 THEN "15-60m"
        ELSE ">60m"

\* sorted(vals) for a list of numbers
RECURSIVE insert_num(_, _)
insert_num(lst, v) ==
    IF lst = <<>> THEN <<v>>
    ELSE IF v < Head(lst) THEN <<v>> \o lst
    ELSE <<Head(lst)>> \o insert_num(Tail(lst), v)

RECURSIVE sorted_nums(_)
sorted_nums(vals) ==
    IF vals = <<>> THEN <<>>
    ELSE insert_num(sorted_nums(SubSeq(vals, 1, Len(vals) - 1)), vals[Len(vals)])

RECURSIVE sum(_)
sum(vals) == IF vals = <<>> THEN 0 ELSE Head(vals) + sum(Tail(vals))

\* round(n / d, 2) in hundredths
round_2(n, d) == (200 * n + d) \div (2 * d)

\* round(statistics.median(vals), 2), vals not empty
median(vals) ==
    LET s == sorted_nums(vals)
        n == Len(s)
    IN  IF n % 2 = 1 THEN round_2(s[(n + 1) \div 2], 1)
        ELSE round_2(s[n \div 2] + s[n \div 2 + 1], 2)

\* round(statistics.mean(vals), 2), vals not empty
mean(vals) == round_2(sum(vals), Len(vals))

\* the ttc_minutes of the rows that have one
ttc_vals_of(rs) ==
    LET with_ttc == SelectSeq(rs, LAMBDA r : r.ttc_minutes # None)
    IN  [i \in 1..Len(with_ttc) |-> with_ttc[i].ttc_minutes[1]]

\* E) compute_ttc_overall
compute_ttc_overall(resolved_rows, open_rows) ==
    LET ttc_vals == ttc_vals_of(resolved_rows)
        n == Len(ttc_vals)
        buckets(b) == Cardinality({i \in 1..n : _ttc_bucket(ttc_vals[i]) = b})
        p90 == get_error_stats_p90
        at == (n * p90[1]) \div p90[2]
    IN  [resolved_fail_events |-> Len(resolved_rows),
         open_fail_events |-> Len(open_rows),
         open_unique_trays |-> Cardinality(trays_of(open_rows)),
         median_ttc_minutes |-> IF n > 0 THEN Some(median(ttc_vals)) ELSE None,
         mean_ttc_minutes |-> IF n > 0 THEN Some(mean(ttc_vals)) ELSE None,
         p90_ttc_minutes |->
            IF n > 0
            THEN Some(round_2(sorted_nums(ttc_vals)[1 + (IF at < n - 1 THEN at ELSE n - 1)], 1))
            ELSE None,
         bucket_leq5m |-> buckets("<=5m"),
         bucket_5_15m |-> buckets("5-15m"),
         bucket_15_60m |-> buckets("15-60m"),
         bucket_gt60m |-> buckets(">60m")]

\* F) compute_ttc_by_station
compute_ttc_by_station(resolved_rows, open_rows, station_order) ==
    LET by_st(sg) == SelectSeq(resolved_rows, LAMBDA r : r.station_group = sg)
                         \o SelectSeq(open_rows, LAMBDA r : r.station_group = sg)
        stations_set == ({resolved_rows[i].station_group : i \in 1..Len(resolved_rows)}
                             \cup {open_rows[i].station_group : i \in 1..Len(open_rows)})
                            \ {<<>>}
        ordered == sort_stations(stations_set \cap Range(station_order))
        others == sorted_strings(stations_set \ Range(station_order))
        all_st == ordered \o others
        entry(sg) ==
            LET ttc_vals == ttc_vals_of(by_st(sg))
                open_here == SelectSeq(by_st(sg), LAMBDA r : r.open)
            IN  [station_group |-> sg,
                 resolved_count |-> Len(ttc_vals),
                 open_count |-> Cardinality(trays_of(open_here)),
                 median_ttc |-> IF ttc_vals # <<>> THEN Some(median(ttc_vals)) ELSE None,
                 mean_ttc |-> IF ttc_vals # <<>> THEN Some(mean(ttc_vals)) ELSE None,
                 max_ttc |-> IF ttc_vals # <<>>
                             THEN Some(round_2(SetMax(Range(ttc_vals)), 1)) ELSE None,
                 total_ttc_minutes |-> round_2(sum(ttc_vals), 1)]
    IN  [j \in 1..Len(all_st) |-> entry(all_st[j])]

\* G) compute_ttc_by_error
compute_ttc_by_error(resolved_rows, top_k_errors) ==
    LET entry(code) ==
            LET ttc_vals ==
                    ttc_vals_of(SelectSeq(resolved_rows, LAMBDA r : r.error_key = code))
            IN  [error_code |-> code,
                 resolved_count |-> Len(ttc_vals),
                 median_ttc |-> IF ttc_vals # <<>> THEN Some(median(ttc_vals)) ELSE None,
                 total_ttc_minutes |-> round_2(sum(ttc_vals), 1)]
    IN  [j \in 1..Len(top_k_errors) |-> entry(top_k_errors[j].error_code)]

\* a faulty variant of open_fails_of: a FAIL row without timestamp is not taken as open
open_fails_of_timed(fail_rows) ==
    SelectSeq(fail_rows, LAMBDA r : r.open /\ r.test_time_dt # None)

\* compute_error_stats, line 378: the open FAIL rows
open_fails_of(fail_rows) == SelectSeq(fail_rows, LAMBDA r : r.open)

\* compute_error_stats: the tables A-G and the FAIL rows kept for the drill-down
compute_error_stats(rws, top_k) ==
    LET norm == infer_clear_times(rws)
        fail_rows == SelectSeq(norm, LAMBDA r : _norm(r.result) = S_FAIL)
        resolved == SelectSeq(fail_rows, LAMBDA r : ~r.open /\ r.ttc_minutes # None)
        open_fails == open_fails_of(fail_rows)
        top_k_errors == compute_top_k_errors(fail_rows, top_k)
        station_order == STATIONS_ORDER
        matrix == compute_station_error_matrix(fail_rows, top_k_errors, station_order)
    IN  [fail_by_station |-> compute_fail_summary_by_station(fail_rows),
         top_k_errors |-> top_k_errors,
         station_error_matrix |-> matrix.rows,
         station_error_matrix_cols |-> matrix.cols,
         station_instance_hotspots |-> compute_station_instance_hotspots(fail_rows),
         ttc_overall |-> compute_ttc_overall(resolved, open_fails),
         ttc_by_station |-> compute_ttc_by_station(resolved, open_fails, station_order),
         ttc_by_error |-> compute_ttc_by_error(resolved, top_k_errors),
         _fail_rows |-> fail_rows,
         _top_k |-> top_k]

\* a faulty variant of sn_list_keeps: a metric that is not known keeps every row
sn_list_keeps_any_metric(r, metric, station_group, error_code, ttc_bucket, station_instance) ==
    metric \notin {"fail_by_station", "top_errors", "station_error", "station_instance",
                   "ttc_overall", "ttc_by_station", "ttc_by_station_open", "ttc_by_error"}

\* lines 416-466: does the drill-down keep the FAIL row r?  An absent or empty filter is
\* <<>> (None), a ttc_bucket is "" when absent.
sn_list_keeps(r, metric, station_group, error_code, ttc_bucket, station_instance) ==
    LET station_ok == strip(station_group) = <<>> \/ r.station_group = _norm(station_group)
        error_ok == strip(error_code) = <<>> \/ r.error_key = _norm(error_code)
        has_ttc == ~r.open /\ r.ttc_minutes # None
    IN  CASE metric = "fail_by_station" -> station_ok
          [] metric = "top_errors" -> error_ok
          [] metric = "station_error" -> station_ok /\ error_ok
          [] metric = "station_instance" ->
                 /\ strip(station_instance) # <<>>
                 /\ strip(r.station_instance) = strip(station_instance)
          [] metric = "ttc_overall" ->
                 IF ttc_bucket = "" THEN TRUE
                 ELSE IF ttc_bucket = "open" THEN r.open
                 ELSE IF ttc_bucket = "resolved" THEN has_ttc
                 ELSE has_ttc /\ _ttc_bucket(r.ttc_minutes[1]) = ttc_bucket
          [] metric = "ttc_by_station" -> station_ok /\ has_ttc
          [] metric = "ttc_by_station_open" -> station_ok /\ r.open
          [] metric = "ttc_by_error" -> error_ok /\ has_ttc
          [] OTHER -> FALSE

\* lines 468-479 (the display string test_time of a row is not modelled)
sn_list_row(r) ==
    [sn |-> strip(r.serial_number),
     part_number |-> strip(r.part_number),
     station |-> strip(r.station),
     station_group |-> r.station_group,
     error_code |-> r.error_key,
     error_message |-> strip(r.failure_msg),
     ttc_minutes |-> r.ttc_minutes,
     open |-> r.open,
     _test_time_dt |-> r.test_time_dt]

\* a faulty variant of by_sn_of: every row is kept, also a second row of an SN
by_sn_of_keep_all(out) == out

\* lines 483-493 and 499-509: by_sn, one row per non-blank SN in insertion order, a later
\* row of the SN replacing the kept one when its timestamp is greater
RECURSIVE by_sn_of(_)
by_sn_of(out) ==
    IF out = <<>> THEN <<>>
    ELSE LET by_sn == by_sn_of(SubSeq(out, 1, Len(out) - 1))
             row == out[Len(out)]
             at == {j \in 1..Len(by_sn) : by_sn[j].sn = row.sn}
         IN  IF row.sn = <<>> THEN by_sn
             ELSE IF at = {} THEN Append(by_sn, row)
             ELSE IF /\ row._test_time_dt # None
                     /\ dt_or_min(by_sn[SetMin(at)]._test_time_dt) < row._test_time_dt[1]
                  THEN [by_sn EXCEPT ![SetMin(at)] = row]
             ELSE by_sn

\* lines 494-496 and 510-512
tray_row(r) ==
    [sn |-> r.sn, part_number |-> r.part_number, station |-> r.station,
     error_code |-> r.error_code, error_message |-> r.error_message]

\* line 514: the row without _test_time_dt
public_row(r) ==
    [sn |-> r.sn, part_number |-> r.part_number, station |-> r.station,
     station_group |-> r.station_group, error_code |-> r.error_code,
     error_message |-> r.error_message, ttc_minutes |-> r.ttc_minutes, open |-> r.open]

compute_error_stats_sn_list(result, metric, station_group, error_code, ttc_bucket, station_instance, drill_type) ==
    LET fail_rows == result._fail_rows
        kept == SelectSeq(fail_rows, LAMBDA r : sn_list_keeps(r, metric, station_group,
                                                  error_code, ttc_bucket, station_instance))
        out == [i \in 1..Len(kept) |-> sn_list_row(kept[i])]
        unique_trays == lower(strip(drill_type)) = S_unique_trays
    IN  IF /\ unique_trays
           /\ metric \in {"fail_by_station", "top_errors", "station_instance"}
           /\ out # <<>>
        THEN [j \in 1..Len(by_sn_of(out)) |-> tray_row(by_sn_of(out)[j])]
        ELSE IF /\ \/ metric = "ttc_overall" /\ ttc_bucket = "open"
                   \/ metric = "ttc_by_station_open"
                /\ out # <<>>
             THEN [j \in 1..Len(by_sn_of(out)) |-> tray_row(by_sn_of(out)[j])]
        ELSE [i \in 1..Len(out) |-> public_row(out[i])]

-----------------------------------------------------------------------------
(* Inputs of the aggregate path                                            *)

\* the most rows one report holds
MaxRows == 2

SN_A == <<"A">>

SN_B == <<"B">>

\* 2024-09-01 10:00 (a Sunday) and 2024-09-30 09:00 (a Monday): different days and
\* weeks, the same month
T_SEP01 == 19967 * 1440 + 600

T_SEP30 == 19996 * 1440 + 540

\* a part number of no pass-rule list: its pass station is unknown_station
PN_X == <<"x">>

\* a part number that reads "unknown"
PN_unknown == <<"u", "n", "k", "n", "o", "w", "n">>

\* a station of no station order
ST_XYZ == <<"X", "Y", "Z">>

\* a result in lower case
S_pass == <<"p", "a", "s", "s">>

\* rows of the SFC report: two SNs (one written with trailing whitespace), a listed and an
\* unlisted part number, the pass stations of both (one in lower case with whitespace),
\* both results, and a missing or present timestamp; a row without SN; rows whose
\* part number reads like the "__TOTAL__" value of the drill-down requests; and PASS rows
\* at the unknown_station without part number or with the part number "unknown"; a PASS
\* row at a station outside the station order; and a row whose result reads "pass"
AggRows ==
    [serial_number : {SN_A, <<"B", " ">>},
     part_number : {PN_0010_TS2, PN_X},
     station : {FCT, <<"r", "i", "n", " ">>},
     result : {S_PASS, S_FAIL},
     test_time_dt : {None, Some(T_SEP01), Some(T_SEP30)},
     error_code : {<<>>},
     failure_msg : {<<>>}]
    \cup
    [serial_number : {<<" ">>},
     part_number : {PN_X},
     station : {FCT},
     result : {S_PASS},
     test_time_dt : {Some(T_SEP30)},
     error_code : {<<>>},
     failure_msg : {<<>>}]
    \cup
    [serial_number : {SN_A, <<"B", " ">>},
     part_number : {S_TOTAL},
     station : {FCT},
     result : {S_PASS, S_FAIL},
     test_time_dt : {Some(T_SEP30)},
     error_code : {<<>>},
     failure_msg : {<<>>}]
    \cup
    [serial_number : {SN_A},
     part_number : {<<>>, PN_unknown},
     station : {RIN},
     result : {S_PASS},
     test_time_dt : {Some(T_SEP30)},
     error_code : {<<>>},
     failure_msg : {<<>>}]
    \cup
    [serial_number : {SN_A},
     part_number : {PN_X},
     station : {ST_XYZ},
     result : {S_PASS},
     test_time_dt : {Some(T_SEP30)},
     error_code : {<<>>},
     failure_msg : {<<>>}]
    \cup
    [serial_number : {SN_A},
     part_number : {PN_X},
     station : {FCT},
     result : {S_pass},
     test_time_dt : {Some(T_SEP30)},
     error_code : {<<>>},
     failure_msg : {<<>>}]

Aggregations == {S_daily, S_weekly, S_monthly}

-----------------------------------------------------------------------------
(* src/app.py: the requests                                                *)

InitAgg ==
    /\ rows = <<>>
    /\ aggregation = S_daily
    /\ _last_query_result = None
    /\ _last_error_stats_result = None
    /\ _bp_sn_cache_set = None
    /\ bp_sn_cache_file = {SN_A}
    /\ pc = "input"
    /\ bp_init
    /\ req_init

\* parse_fail_result_html yields one more row of the report
parse_row(r) ==
    /\ pc = "input"
    /\ Len(rows) < MaxRows
    /\ rows' = Append(rows, r)
    /\ UNCHANGED <<aggregation, _last_query_result, _last_error_stats_result,
                   _bp_sn_cache_set, bp_sn_cache_file, pc>>
    /\ UNCHANGED bp_vars
    /\ UNCHANGED req_vars

\* /api/query with a valid range and a successful SFC fetch (app.py lines 286-326)
api_query(agg) ==
    /\ pc = "input"
    /\ LET bp_set == load_bp_sn_set(_bp_sn_cache_set, bp_sn_cache_file)
       IN  /\ _last_query_result' = Some(compute_all(rows, agg, bp_set))
           /\ _bp_sn_cache_set' = Some(bp_set)
    /\ aggregation' = agg
    /\ pc' = "done"
    /\ UNCHANGED <<rows, _last_error_stats_result, bp_sn_cache_file>>
    /\ UNCHANGED bp_vars
    /\ UNCHANGED req_vars

NextAgg ==
    \/ \E r \in AggRows : parse_row(r)
    \/ \E agg \in Aggregations : api_query(agg)

SpecAgg == InitAgg /\ [][NextAgg]_vars

-----------------------------------------------------------------------------
(* Inputs of the error-stats path                                          *)

\* the most rows one error-stats report holds
MaxErrRows == 3

\* analytics_config._DEFAULT_CONFIG["top_k_errors_default"]
TOP_K_ERRORS_DEFAULT == 5

S_r_ast == <<"r", "_", "a", "s", "t", " ">>

S_R_sp_AST == <<"R", "_", " ", "A", "S", "T">>

EC_e1 == <<"e", "1", " ">>

MSG_timeout == <<"t", "i", "m", "e", "o", "u", "t">>

MSG_long ==
    <<"f", "a", "n", " ", "s", "p", "e", "e", "d", " ", "b", "e", "l", "o", "w", " ",
      "l", "i", "m", "i", "t", " ", "0", "1">>

\* a timestamp so many minutes after 2024-09-01 10:00
T_plus(minutes) == Some(T_SEP01 + minutes)

\* FAIL rows without error text of two SNs and of no SN, at a remote and a plain station,
\* without timestamp, at 10:00 and at 10:05
TimedFailRows ==
    [serial_number : {SN_A, SN_B, <<" ">>},
     part_number : {PN_X},
     station : {S_r_ast, FCT},
     result : {S_FAIL},
     test_time_dt : {None, T_plus(0), T_plus(5)},
     error_code : {<<>>},
     failure_msg : {<<>>},
     station_instance : {<<>>}]

\* PASS rows at 10:05, 10:20 and 11:20: 5, 15, 20, 75 and 80 minutes after a FAIL, or
\* not after it
TimedPassRows ==
    [serial_number : {SN_A, SN_B},
     part_number : {PN_X},
     station : {<<"A", "S", "T">>, FCT},
     result : {S_PASS},
     test_time_dt : {T_plus(5), T_plus(20), T_plus(80)},
     error_code : {<<>>},
     failure_msg : {<<>>},
     station_instance : {<<>>}]

\* FAIL rows with an error code, with a short and with a long failure message
KeyedFailRows ==
    {[serial_number |-> SN_A, part_number |-> PN_X, station |-> FCT, result |-> S_FAIL,
      test_time_dt |-> T_plus(0), error_code |-> k.error_code,
      failure_msg |-> k.failure_msg, station_instance |-> <<>>] :
        k \in {[error_code |-> EC_e1, failure_msg |-> MSG_timeout],
               [error_code |-> <<>>, failure_msg |-> MSG_timeout],
               [error_code |-> <<>>, failure_msg |-> MSG_long]}}

\* a FAIL row whose station has whitespace behind the remote prefix
SpacedStationRows ==
    {[serial_number |-> SN_A, part_number |-> PN_X, station |-> S_R_sp_AST,
      result |-> S_FAIL, test_time_dt |-> T_plus(0), error_code |-> <<>>,
      failure_msg |-> <<>>, station_instance |-> <<>>]}

\* a PASS row at the remote variant of a station
RemotePassRows ==
    {[serial_number |-> SN_A, part_number |-> PN_X, station |-> S_R_ \o FCT,
      result |-> S_PASS, test_time_dt |-> T_plus(5), error_code |-> <<>>,
      failure_msg |-> <<>>, station_instance |-> <<>>]}

\* a FAIL row whose station cell is empty
BlankStationRows ==
    {[serial_number |-> SN_A, part_number |-> PN_X, station |-> <<>>,
      result |-> S_FAIL, test_time_dt |-> T_plus(0), error_code |-> <<>>,
      failure_msg |-> <<>>, station_instance |-> <<>>]}

ErrRows ==
    TimedFailRows \cup TimedPassRows \cup KeyedFailRows \cup SpacedStationRows
        \cup RemotePassRows \cup BlankStationRows

\* top_k_errors of the request body: absent, or a number
TopKRequests == {None, Some(1)}

InitErr ==
    /\ rows = <<>>
    /\ aggregation = S_daily
    /\ _last_query_result = None
    /\ _last_error_stats_result = None
    /\ _bp_sn_cache_set = None
    /\ bp_sn_cache_file = {SN_A}
    /\ pc = "input"
    /\ bp_init
    /\ req_init

\* parse_fail_result_html yields one more row of the report
parse_error_row(r) ==
    /\ pc = "input"
    /\ Len(rows) < MaxErrRows
    /\ rows' = Append(rows, r)
    /\ UNCHANGED <<aggregation, _last_query_result, _last_error_stats_result,
                   _bp_sn_cache_set, bp_sn_cache_file, pc>>
    /\ UNCHANGED bp_vars
    /\ UNCHANGED req_vars

\* app.py lines 379-387: top_k of the request, the default when absent or below 1
top_k_of(requested) ==
    IF requested = None THEN TOP_K_ERRORS_DEFAULT
    ELSE IF requested[1] < 1 THEN TOP_K_ERRORS_DEFAULT
    ELSE requested[1]

\* /api/error-stats with a valid range and a successful SFC fetch
api_error_stats(requested) ==
    /\ pc = "input"
    /\ _last_error_stats_result' = Some(compute_error_stats(rows, top_k_of(requested)))
    /\ pc' = "done"
    /\ UNCHANGED <<rows, aggregation, _last_query_result, _bp_sn_cache_set,
                   bp_sn_cache_file>>
    /\ UNCHANGED bp_vars
    /\ UNCHANGED req_vars

NextErr ==
    \/ \E r \in ErrRows : parse_error_row(r)
    \/ \E requested \in TopKRequests : api_error_stats(requested)

SpecErr == InitErr /\ [][NextErr]_vars


-----------------------------------------------------------------------------
(* Inputs of compute_error_stats for error keys and their ranking           *)

\* the most rows of a report of keyed rows
MaxKeyRows == 3

SN_C == <<"C">>

SN_D == <<"D">>

EC_E1 == <<"E", "1">>

EC_E2 == <<"E", "2">>

EC_E3 == <<"E", "3">>

\* n times the character c
chars(c, n) == [i \in 1..n |-> c]

\* a failure message of 81 characters: lead blanks, then the letter a up to character 80,
\* then the character last
long_msg(lead, last) == chars(" ", lead) \o chars("a", 80 - lead) \o <<last>>

\* a FAIL row at FCT at 10:00
fail_row(sn, error_code, failure_msg) ==
    [serial_number |-> sn, part_number |-> PN_X, station |-> FCT, result |-> S_FAIL,
     test_time_dt |-> T_plus(0), error_code |-> error_code, failure_msg |-> failure_msg,
     station_instance |-> <<>>]

\* FAIL rows of two error codes for two SNs and for no SN
CodedFailRows == {fail_row(sn, ec, <<>>) : sn \in {SN_A, SN_B, <<>>}, ec \in {EC_E1, EC_E2}}

\* FAIL rows without error code whose messages are the same up to character 80 and differ
\* at character 81, without and with a leading blank
LongMsgFailRows ==
    {fail_row(SN_A, <<>>, long_msg(lead, last)) : lead \in {0, 1}, last \in {"x", "y"}}

KeyRows == CodedFailRows \cup LongMsgFailRows

\* thirteen FAIL rows: E1 five times for two SNs, E2 five times for four SNs, E3 three
\* times for one SN
RankedReport ==
    <<fail_row(SN_A, EC_E1, <<>>), fail_row(SN_A, EC_E1, <<>>), fail_row(SN_A, EC_E1, <<>>),
      fail_row(SN_B, EC_E1, <<>>), fail_row(SN_B, EC_E1, <<>>),
      fail_row(SN_A, EC_E2, <<>>), fail_row(SN_B, EC_E2, <<>>), fail_row(SN_C, EC_E2, <<>>),
      fail_row(SN_D, EC_E2, <<>>), fail_row(SN_D, EC_E2, <<>>),
      fail_row(SN_A, EC_E3, <<>>), fail_row(SN_A, EC_E3, <<>>), fail_row(SN_A, EC_E3, <<>>)>>

\* the row lists compute_error_stats is given
KeyReports == UNION {[1..n -> KeyRows] : n \in 0..MaxKeyRows} \cup {RankedReport}

\* top_k_errors of the request body
KeyTopKRequests == {Some(1), Some(2)}

InitKeys ==
    /\ rows \in KeyReports
    /\ aggregation = S_daily
    /\ _last_query_result = None
    /\ _last_error_stats_result = None
    /\ _bp_sn_cache_set = None
    /\ bp_sn_cache_file = {SN_A}
    /\ pc = "input"
    /\ bp_init
    /\ req_init

NextKeys == \E requested \in KeyTopKRequests : api_error_stats(requested)

SpecKeys == InitKeys /\ [][NextKeys]_vars

-----------------------------------------------------------------------------
(* src/bonepile_disposition.py: the bonepile SN cache under concurrent calls *)
(*                                                                         *)
(* Each "with _bp_sn_cache_lock" block that only touches memory is one     *)
(* step taken while no thread holds the lock.  update_bp_sn_cache holds    *)
(* the lock over three steps (read the file, set the in-memory set, write  *)
(* the file); load_bp_sn_set reads the file without the lock.  The cache   *)
(* file exists and every write of it succeeds as one step.                 *)

\* the most bonepile cache calls of one run
MaxBpCalls == 4

\* the new_sns arguments of update_bp_sn_cache: only blanks, an SN with whitespace, an SN
BpNewSns == {{<<" ">>}, {<<"B", " ">>}, {SN_C}}

\* set(str(s).strip() for s in sns if s and str(s).strip())
stripped_sns(sns) == {strip(s) : s \in sns} \ {<<>>}

\* the other threads stay where they are
bp_step(t, call) == bp_thread' = [bp_thread EXCEPT ![t] = call]

InitBp ==
    /\ rows = <<>>
    /\ aggregation = S_daily
    /\ _last_query_result = None
    /\ _last_error_stats_result = None
    /\ _bp_sn_cache_set = None
    /\ bp_sn_cache_file = {SN_A}
    /\ pc = "input"
    /\ bp_init
    /\ req_init

\* a thread calls load_bp_sn_set()
load_call(t) ==
    /\ bp_thread[t].op = "idle"
    /\ bp_calls < MaxBpCalls
    /\ bp_calls' = bp_calls + 1
    /\ bp_step(t, [idle_call EXCEPT !.op = "load", !.at = "check", !.must = bp_updated])
    /\ UNCHANGED <<rows, aggregation, _last_query_result, _last_error_stats_result,
                   _bp_sn_cache_set, bp_sn_cache_file, pc, _bp_sn_cache_lock, bp_updated>>
    /\ UNCHANGED req_vars

\* lines 72-74: under the lock, return a copy of the in-memory set when there is one
load_check(t) ==
    /\ bp_thread[t].op = "load" /\ bp_thread[t].at = "check"
    /\ _bp_sn_cache_lock = None
    /\ IF _bp_sn_cache_set # None
       THEN bp_step(t, [bp_thread[t] EXCEPT !.at = "done", !.ret = _bp_sn_cache_set[1]])
       ELSE bp_step(t, [bp_thread[t] EXCEPT !.at = "read"])
    /\ UNCHANGED <<rows, aggregation, _last_query_result, _last_error_stats_result,
                   _bp_sn_cache_set, bp_sn_cache_file, pc, _bp_sn_cache_lock, bp_updated,
                   bp_calls>>
    /\ UNCHANGED req_vars

\* lines 75-84: read the cache file, without the lock
load_read(t) ==
    /\ bp_thread[t].op = "load" /\ bp_thread[t].at = "read"
    /\ bp_step(t, [bp_thread[t] EXCEPT !.at = "store",
                                       !.local = stripped_sns(bp_sn_cache_file)])
    /\ UNCHANGED <<rows, aggregation, _last_query_result, _last_error_stats_result,
                   _bp_sn_cache_set, bp_sn_cache_file, pc, _bp_sn_cache_lock, bp_updated,
                   bp_calls>>
    /\ UNCHANGED req_vars

\* lines 86-88: under the lock, keep what was read as the in-memory set and return it
load_store(t) ==
    /\ bp_thread[t].op = "load" /\ bp_thread[t].at = "store"
    /\ _bp_sn_cache_lock = None
    /\ _bp_sn_cache_set' = Some(bp_thread[t].local)
    /\ bp_step(t, [bp_thread[t] EXCEPT !.at = "done", !.ret = bp_thread[t].local])
    /\ UNCHANGED <<rows, aggregation, _last_query_result, _last_error_stats_result,
                   bp_sn_cache_file, pc, _bp_sn_cache_lock, bp_updated, bp_calls>>
    /\ UNCHANGED req_vars

\* a thread calls update_bp_sn_cache(new_sns); lines 94-96: nothing to do without SNs
update_call(t, new_sns) ==
    /\ bp_thread[t].op = "idle"
    /\ bp_calls < MaxBpCalls
    /\ bp_calls' = bp_calls + 1
    /\ bp_step(t, [idle_call EXCEPT !.op = "update",
                                    !.at = IF stripped_sns(new_sns) = {} THEN "done"
                                           ELSE "lock",
                                    !.new_set = stripped_sns(new_sns)])
    /\ UNCHANGED <<rows, aggregation, _last_query_result, _last_error_stats_result,
                   _bp_sn_cache_set, bp_sn_cache_file, pc, _bp_sn_cache_lock, bp_updated>>
    /\ UNCHANGED req_vars

\* lines 98-108: take the lock and read the SNs of the cache file
update_lock(t) ==
    /\ bp_thread[t].op = "update" /\ bp_thread[t].at = "lock"
    /\ _bp_sn_cache_lock = None
    /\ _bp_sn_cache_lock' = Some(t)
    /\ bp_step(t, [bp_thread[t] EXCEPT !.at = "merge",
                                       !.local = stripped_sns(bp_sn_cache_file)])
    /\ UNCHANGED <<rows, aggregation, _last_query_result, _last_error_stats_result,
                   _bp_sn_cache_set, bp_sn_cache_file, pc, bp_updated, bp_calls>>
    /\ UNCHANGED req_vars

\* lines 109-110: current.update(new_set); _bp_sn_cache_set = set(current)
update_merge(t) ==
    /\ bp_thread[t].op = "update" /\ bp_thread[t].at = "merge"
    /\ _bp_sn_cache_lock = Some(t)
    /\ _bp_sn_cache_set' = Some(bp_thread[t].local \cup bp_thread[t].new_set)
    /\ bp_step(t, [bp_thread[t] EXCEPT !.at = "write",
                                       !.local = bp_thread[t].local \cup bp_thread[t].new_set])
    /\ UNCHANGED <<rows, aggregation, _last_query_result, _last_error_stats_result,
                   bp_sn_cache_file, pc, _bp_sn_cache_lock, bp_updated, bp_calls>>
    /\ UNCHANGED req_vars

\* lines 111-116: write the cache file, release the lock and return
update_write(t) ==
    /\ bp_thread[t].op = "update" /\ bp_thread[t].at = "write"
    /\ _bp_sn_cache_lock = Some(t)
    /\ bp_sn_cache_file' = bp_thread[t].local
    /\ _bp_sn_cache_lock' = None
    /\ bp_updated' = bp_updated \cup bp_thread[t].new_set
    /\ bp_step(t, [bp_thread[t] EXCEPT !.at = "done"])
    /\ UNCHANGED <<rows, aggregation, _last_query_result, _last_error_stats_result,
                   _bp_sn_cache_set, pc, bp_calls>>
    /\ UNCHANGED req_vars

\* a thread calls invalidate_bp_sn_cache(): under the lock, forget the in-memory set
invalidate_bp_sn_cache(t) ==
    /\ bp_thread[t].op = "idle"
    /\ bp_calls < MaxBpCalls
    /\ bp_calls' = bp_calls + 1
    /\ _bp_sn_cache_lock = None
    /\ _bp_sn_cache_set' = None
    /\ UNCHANGED <<rows, aggregation, _last_query_result, _last_error_stats_result,
                   bp_sn_cache_file, pc, _bp_sn_cache_lock, bp_thread, bp_updated>>
    /\ UNCHANGED req_vars

\* the call of the thread has returned to its caller
bp_return(t) ==
    /\ bp_thread[t].at = "done"
    /\ bp_step(t, idle_call)
    /\ UNCHANGED <<rows, aggregation, _last_query_result, _last_error_stats_result,
                   _bp_sn_cache_set, bp_sn_cache_file, pc, _bp_sn_cache_lock, bp_updated,
                   bp_calls>>
    /\ UNCHANGED req_vars

NextBp ==
    \E t \in Threads :
        \/ load_call(t)
        \/ load_check(t)
        \/ load_read(t)
        \/ load_store(t)
        \/ \E new_sns \in BpNewSns : update_call(t, new_sns)
        \/ update_lock(t)
        \/ update_merge(t)
        \/ update_write(t)
        \/ invalidate_bp_sn_cache(t)
        \/ bp_return(t)

SpecBp == InitBp /\ [][NextBp]_vars
-----------------------------------------------------------------------------
(* src/app.py: /api/query and /api/sn-list under concurrent requests       *)
(*                                                                         *)
(* Flask serves each request on a thread of its own.  A handler runs in    *)
(* steps: the validation of the range, the SFC fetch with the parsing of   *)
(* the report, compute_all, and the "with _last_query_lock" block; such a  *)
(* block holds one assignment and is one step.  cache_writes records the   *)
(* writes of _last_query_result with the request that made them.           *)

\* the most requests of one run
MaxReqCalls == 3

\* the ranges of the requests, as _parse_datetime returns them: no start, an end
\* before the start, September, and 2024-09-30 alone
QueryRanges ==
    {[user_start |-> None, user_end |-> Some(T_SEP30)],
     [user_start |-> Some(T_SEP30), user_end |-> Some(T_SEP01)],
     [user_start |-> Some(T_SEP01), user_end |-> Some(T_SEP30)],
     [user_start |-> Some(T_SEP30), user_end |-> Some(T_SEP30)]}

\* the rows of the report the SFC holds: a PASS of one SN on 2024-09-01, a FAIL of
\* another on 2024-09-30
SfcReport ==
    <<[serial_number |-> SN_A, part_number |-> PN_0010_TS2, station |-> FCT,
       result |-> S_PASS, test_time_dt |-> Some(T_SEP01), error_code |-> <<>>,
       failure_msg |-> <<>>],
      [serial_number |-> SN_B, part_number |-> PN_X, station |-> FCT,
       result |-> S_FAIL, test_time_dt |-> Some(T_SEP30), error_code |-> <<>>,
       failure_msg |-> <<>>]>>

\* a faulty variant of request_valid: an end before the start is accepted
request_valid_unordered(user_start, user_end) == user_start # None /\ user_end # None

\* api_query, lines 300-305: the range the request goes on with
request_valid(user_start, user_end) ==
    /\ user_start # None
    /\ user_end # None
    /\ ~(user_end[1] < user_start[1])

\* parse_fail_result_html, lines 101-104: the rows whose TEST TIME is in the range, and
\* those without
rows_in_range(report, user_start, user_end) ==
    SelectSeq(report, LAMBDA r : \/ r.test_time_dt = None
                                 \/ ~(\/ r.test_time_dt[1] < user_start[1]
                                      \/ r.test_time_dt[1] > user_end[1]))

\* the other threads stay where they are
req_step(t, req) == req_thread' = [req_thread EXCEPT ![t] = req]

InitCache ==
    /\ rows = <<>>
    /\ aggregation = S_daily
    /\ _last_query_result = None
    /\ _last_error_stats_result = None
    /\ _bp_sn_cache_set = None
    /\ bp_sn_cache_file = {SN_A}
    /\ pc = "input"
    /\ bp_init
    /\ req_init

\* lines 293-299: a thread takes a /api/query request
query_call(t, range, agg) ==
    /\ req_thread[t].op = "idle"
    /\ req_calls < MaxReqCalls
    /\ req_calls' = req_calls + 1
    /\ req_step(t, [idle_req EXCEPT !.op = "query", !.at = "validate",
                                    !.call = req_calls + 1,
                                    !.user_start = range.user_start,
                                    !.user_end = range.user_end, !.agg = agg])
    /\ UNCHANGED <<rows, aggregation, _last_query_result, _last_error_stats_result,
                   _bp_sn_cache_set, bp_sn_cache_file, pc, cache_writes>>
    /\ UNCHANGED bp_vars

\* lines 300-305: 400 without start or end, or with the end before the start
query_validate(t) ==
    /\ req_thread[t].op = "query" /\ req_thread[t].at = "validate"
    /\ IF request_valid(req_thread[t].user_start, req_thread[t].user_end)
       THEN req_step(t, [req_thread[t] EXCEPT !.at = "fetch"])
       ELSE req_step(t, [req_thread[t] EXCEPT !.at = "done", !.status = 400])
    /\ UNCHANGED <<rows, aggregation, _last_query_result, _last_error_stats_result,
                   _bp_sn_cache_set, bp_sn_cache_file, pc, cache_writes, req_calls>>
    /\ UNCHANGED bp_vars

\* lines 307-311: request_fail_result fails (502), or the report is parsed
query_fetch(t, ok) ==
    /\ req_thread[t].op = "query" /\ req_thread[t].at = "fetch"
    /\ IF ok
       THEN req_step(t, [req_thread[t] EXCEPT
                            !.at = "compute",
                            !.rows = rows_in_range(SfcReport, req_thread[t].user_start,
                                                   req_thread[t].user_end)])
       ELSE req_step(t, [req_thread[t] EXCEPT !.at = "done", !.status = 502])
    /\ UNCHANGED <<rows, aggregation, _last_query_result, _last_error_stats_result,
                   _bp_sn_cache_set, bp_sn_cache_file, pc, cache_writes, req_calls>>
    /\ UNCHANGED bp_vars

\* line 312: compute_all over the rows of the request
query_compute(t) ==
    /\ req_thread[t].op = "query" /\ req_thread[t].at = "compute"
    /\ LET bp_set == load_bp_sn_set(_bp_sn_cache_set, bp_sn_cache_file)
       IN  /\ req_step(t, [req_thread[t] EXCEPT
                              !.at = "store",
                              !.computed = Some(compute_all(req_thread[t].rows,
                                                            req_thread[t].agg, bp_set))])
           /\ _bp_sn_cache_set' = Some(bp_set)
    /\ UNCHANGED <<rows, aggregation, _last_query_result, _last_error_stats_result,
                   bp_sn_cache_file, pc, cache_writes, req_calls>>
    /\ UNCHANGED bp_vars

\* lines 314-326: under the lock the result becomes the cached one; the response
query_store(t) ==
    /\ req_thread[t].op = "query" /\ req_thread[t].at = "store"
    /\ _last_query_result' = req_thread[t].computed
    /\ cache_writes' = Append(cache_writes, [call |-> req_thread[t].call,
                                             user_start |-> req_thread[t].user_start,
                                             user_end |-> req_thread[t].user_end,
                                             agg |-> req_thread[t].agg,
                                             result |-> req_thread[t].computed[1]])
    /\ req_step(t, [req_thread[t] EXCEPT !.at = "done", !.status = 200])
    /\ UNCHANGED <<rows, aggregation, _last_error_stats_result, _bp_sn_cache_set,
                   bp_sn_cache_file, pc, req_calls>>
    /\ UNCHANGED bp_vars

\* lines 335-345: a thread takes a /api/sn-list request
sn_list_call(t, agg) ==
    /\ req_thread[t].op = "idle"
    /\ req_calls < MaxReqCalls
    /\ req_calls' = req_calls + 1
    /\ req_step(t, [idle_req EXCEPT !.op = "sn_list", !.at = "read",
                                    !.call = req_calls + 1, !.agg = agg])
    /\ UNCHANGED <<rows, aggregation, _last_query_result, _last_error_stats_result,
                   _bp_sn_cache_set, bp_sn_cache_file, pc, cache_writes>>
    /\ UNCHANGED bp_vars

\* lines 347-348: under the lock, the cached result is read
sn_list_read(t) ==
    /\ req_thread[t].op = "sn_list" /\ req_thread[t].at = "read"
    /\ req_step(t, [req_thread[t] EXCEPT !.at = "answer",
                                         !.computed = _last_query_result,
                                         !.seen = Len(cache_writes)])
    /\ UNCHANGED <<rows, aggregation, _last_query_result, _last_error_stats_result,
                   _bp_sn_cache_set, bp_sn_cache_file, pc, cache_writes, req_calls>>
    /\ UNCHANGED bp_vars

\* lines 350-365: "Apply filter first" (400) without a cached result, the SN list of the
\* metric "total" otherwise
sn_list_answer(t) ==
    /\ req_thread[t].op = "sn_list" /\ req_thread[t].at = "answer"
    /\ IF req_thread[t].computed = None
       THEN req_step(t, [req_thread[t] EXCEPT !.at = "done", !.status = 400])
       ELSE req_step(t, [req_thread[t] EXCEPT
                            !.at = "done", !.status = 200,
                            !.count = Len(compute_sn_list(req_thread[t].computed[1],
                                                          M_total, None, None, None, None,
                                                          req_thread[t].agg))])
    /\ UNCHANGED <<rows, aggregation, _last_query_result, _last_error_stats_result,
                   _bp_sn_cache_set, bp_sn_cache_file, pc, cache_writes, req_calls>>
    /\ UNCHANGED bp_vars

\* the response is sent: the thread is free for the next request
req_return(t) ==
    /\ req_thread[t].at = "done"
    /\ req_step(t, idle_req)
    /\ UNCHANGED <<rows, aggregation, _last_query_result, _last_error_stats_result,
                   _bp_sn_cache_set, bp_sn_cache_file, pc, cache_writes, req_calls>>
    /\ UNCHANGED bp_vars

NextCache ==
    \/ \E t \in Threads, range \in QueryRanges, agg \in {S_daily, S_monthly} :
          query_call(t, range, agg)
    \/ \E t \in Threads : query_validate(t)
    \/ \E t \in Threads, ok \in BOOLEAN : query_fetch(t, ok)
    \/ \E t \in Threads : query_compute(t)
    \/ \E t \in Threads : query_store(t)
    \/ \E t \in Threads : sn_list_call(t, S_daily)
    \/ \E t \in Threads : sn_list_read(t)
    \/ \E t \in Threads : sn_list_answer(t)
    \/ \E t \in Threads : req_return(t)

SpecCache == InitCache /\ [][NextCache]_vars

-----------------------------------------------------------------------------
(* Drill-down against the aggregates of the cached result                  *)

\* the levels and columns of tray_summary: the key of the table and its text in a metric
TraySegs == {[key |-> "tested", text |-> M_tested],
             [key |-> "pass", text |-> M_pass],
             [key |-> "fail", text |-> M_fail]}

TrayBpSegs == {[key |-> "bp", text |-> M_bp],
               [key |-> "fresh", text |-> M_fresh],
               [key |-> "total", text |-> M_total]}

Outcomes == {[key |-> "pass", text |-> M_pass], [key |-> "fail", text |-> M_fail]}

tray_metric(seg, bpseg) == M_tray_ \o seg.text \o <<"_">> \o bpseg.text

\* C1: in every cached result R of compute_all, for every seg in {tested, pass, fail} and
\* bpseg in {bp, fresh, total}, compute_sn_list(R, "tray_<seg>_<bpseg>") with no other
\* filter returns exactly R.tray_summary[seg][bpseg] SN records.
C1_TrayDrillDown ==
    _last_query_result # None =>
        LET R == _last_query_result[1]
        IN  \A seg \in TraySegs, bpseg \in TrayBpSegs :
                Len(compute_sn_list(R, tray_metric(seg, bpseg), <<>>, <<>>, <<>>, <<>>, S_daily))
                    = R.tray_summary[seg.key][bpseg.key]

\* C1 witness: a cached result with a passed bonepile SN and a failed fresh SN, so that
\* the tray cells differ from each other and from the totals.
C1_Witness ==
    /\ _last_query_result # None
    /\ _last_query_result[1].tray_summary.pass.bp = 1
    /\ _last_query_result[1].tray_summary.fail.fresh = 1
    /\ _last_query_result[1].tray_summary.pass.fresh = 0
    /\ Len(compute_sn_list(_last_query_result[1], tray_metric(
              [key |-> "pass", text |-> M_pass], [key |-> "bp", text |-> M_bp]),
              <<>>, <<>>, <<>>, <<>>, S_daily)) = 1

\* C3 (as claimed): for every breakdown row b of the cached result,
\* compute_sn_list(R, "pass", period=b.period, aggregation=agg) returns exactly b.passed
\* SNs, also when an SN passes only through rows of another period.
C3_PassPeriodDrillDown ==
    _last_query_result # None =>
        LET R == _last_query_result[1]
        IN  \A i \in 1..Len(R.breakdown_rows) :
                Len(compute_sn_list(R, M_pass, <<>>, R.breakdown_rows[i].period,
                                    <<>>, <<>>, aggregation))
                    = R.breakdown_rows[i].passed

\* C4 (as claimed): for every breakdown row b of the cached result, the metrics
\* breakdown_bonepile and breakdown_fresh with period=b.period return exactly b.bonepile
\* and b.fresh SNs.
C4_BreakdownBpFreshDrillDown ==
    _last_query_result # None =>
        LET R == _last_query_result[1]
        IN  \A i \in 1..Len(R.breakdown_rows) :
                /\ Len(compute_sn_list(R, M_breakdown_bonepile, <<>>,
                                       R.breakdown_rows[i].period, <<>>, <<>>, aggregation))
                       = R.breakdown_rows[i].bonepile
                /\ Len(compute_sn_list(R, M_breakdown_fresh, <<>>,
                                       R.breakdown_rows[i].period, <<>>, <<>>, aggregation))
                       = R.breakdown_rows[i].fresh

C9_TrayPartition ==
    _last_query_result # None =>
        \A seg \in TraySegs :
            LET level == _last_query_result[1].tray_summary[seg.key]
            IN  /\ level.bp + level.fresh = level.total
                /\ level.bp >= 0 /\ level.fresh >= 0 /\ level.total >= 0

\* C9 witness: a result with a failed bonepile SN and a passed fresh SN, where the fail
\* level is computed by the subtractions tested_bp - pass_bp and tested_fresh - pass_fresh.
C9_Witness ==
    /\ _last_query_result # None
    /\ _last_query_result[1].tray_summary.tested = [bp |-> 1, fresh |-> 1, total |-> 2]
    /\ _last_query_result[1].tray_summary.pass = [bp |-> 0, fresh |-> 1, total |-> 1]
    /\ _last_query_result[1].tray_summary.fail = [bp |-> 1, fresh |-> 0, total |-> 1]


-----------------------------------------------------------------------------
(* Drill-down against the tables of the cached error statistics            *)

\* the bucket labels of _ttc_bucket and their cells of ttc_overall
BucketCells == {[label |-> "<=5m", cell |-> "bucket_leq5m"],
                [label |-> "5-15m", cell |-> "bucket_5_15m"],
                [label |-> "15-60m", cell |-> "bucket_15_60m"],
                [label |-> ">60m", cell |-> "bucket_gt60m"]}

\* the number of rows of a drill-down into ttc_overall
ttc_overall_rows(R, ttc_bucket) ==
    Len(compute_error_stats_sn_list(R, "ttc_overall", <<>>, <<>>, ttc_bucket, <<>>, <<>>))

\* C2 (as claimed): for every entry e of top_k_errors of the cached result,
\* compute_error_stats_sn_list(R, "top_errors", error_code=e.error_code) returns exactly
\* e.fail_events rows, whether the key is an upper-cased error code, a short failure
\* message kept verbatim or a hashed "msg_<hex>" key.
C2_TopErrorsDrillDown ==
    _last_error_stats_result # None =>
        LET R == _last_error_stats_result[1]
        IN  \A j \in 1..Len(R.top_k_errors) :
                Len(compute_error_stats_sn_list(R, "top_errors", <<>>,
                        R.top_k_errors[j].error_code, "", <<>>, <<>>))
                    = R.top_k_errors[j].fail_events

\* C7: for the cached result R, the drill-down into ttc_overall returns for each of the
\* four bucket labels as many rows as the bucket count of ttc_overall, for "resolved"
\* resolved_fail_events rows and for "open" open_unique_trays rows.
C7_TtcOverallDrillDown ==
    _last_error_stats_result # None =>
        LET R == _last_error_stats_result[1]
        IN  /\ \A b \in BucketCells : ttc_overall_rows(R, b.label) = R.ttc_overall[b.cell]
            /\ ttc_overall_rows(R, "resolved") = R.ttc_overall.resolved_fail_events
            /\ ttc_overall_rows(R, "open") = R.ttc_overall.open_unique_trays

\* C7 witness: one FAIL cleared after more than 5 and at most 15 minutes, found by the
\* drill-down into its bucket, and one open FAIL, found by the "open" drill-down.
C7_Witness ==
    /\ _last_error_stats_result # None
    /\ _last_error_stats_result[1].ttc_overall.bucket_5_15m = 1
    /\ _last_error_stats_result[1].ttc_overall.resolved_fail_events = 1
    /\ _last_error_stats_result[1].ttc_overall.open_fail_events = 1
    /\ _last_error_stats_result[1].ttc_overall.open_unique_trays = 1
    /\ ttc_overall_rows(_last_error_stats_result[1], "5-15m") = 1
    /\ ttc_overall_rows(_last_error_stats_result[1], "open") = 1

\* C8 (as claimed): for every row f of fail_by_station of the cached result, the
\* drill-down with metric fail_by_station and station_group=f.station_group returns
\* exactly f.fail_events rows, and with drill_type="unique_trays" exactly f.unique_tray
\* rows.
C8_FailByStationDrillDown ==
    _last_error_stats_result # None =>
        LET R == _last_error_stats_result[1]
        IN  \A j \in 1..Len(R.fail_by_station) :
                LET f == R.fail_by_station[j]
                IN  /\ Len(compute_error_stats_sn_list(R, "fail_by_station",
                               f.station_group, <<>>, "", <<>>, <<>>)) = f.fail_events
                    /\ Len(compute_error_stats_sn_list(R, "fail_by_station",
                               f.station_group, <<>>, "", <<>>, S_unique_trays))
                           = f.unique_tray

\* C10: in ttc_overall of the cached result the four bucket counts add up to
\* resolved_fail_events.
C10_BucketSum ==
    _last_error_stats_result # None =>
        LET t == _last_error_stats_result[1].ttc_overall
        IN  t.bucket_leq5m + t.bucket_5_15m + t.bucket_15_60m + t.bucket_gt60m
                = t.resolved_fail_events

\* C10 witness: two FAILs cleared by one PASS, 15 and 20 minutes later, counted in two
\* different buckets.
C10_Witness ==
    /\ _last_error_stats_result # None
    /\ _last_error_stats_result[1].ttc_overall.resolved_fail_events = 2
    /\ _last_error_stats_result[1].ttc_overall.bucket_5_15m = 1
    /\ _last_error_stats_result[1].ttc_overall.bucket_15_60m = 1

-----------------------------------------------------------------------------
(* Order of the rows, pass rule and unknown metrics of the aggregate path   *)

\* the permutations of 1..n
Orders(n) == {p \in [1..n -> 1..n] : \A i, j \in 1..n : p[i] = p[j] => i = j}

\* the list s read in the order p
permuted(s, p) == [i \in 1..Len(s) |-> s[p[i]]]

\* C11: for every SN of a cached result, is_sn_passed gives the cached _sn_pass value on
\* every permutation of the rows of the SN, and the rows the result holds are still the
\* rows of the report, each with its is_bonepile flag and nothing else changed.
C11_PassOrderInsensitive ==
    _last_query_result # None =>
        LET R == _last_query_result[1]
        IN  /\ \A sn \in DOMAIN R._sn_tests :
                  \A p \in Orders(Len(R._sn_tests[sn])) :
                      is_sn_passed(permuted(R._sn_tests[sn], p)) = R._sn_pass[sn]
            /\ R.rows = add_bp_to_rows(rows, _bp_sn_cache_set[1])

\* C11 witness: an SN with two rows of which only the second one qualifies, so that the
\* permutations put the qualifying row first and last.
C11_Witness ==
    /\ _last_query_result # None
    /\ \E sn \in DOMAIN _last_query_result[1]._sn_tests :
          LET tests == _last_query_result[1]._sn_tests[sn]
          IN  /\ Len(tests) = 2
              /\ ~is_sn_passed(<<tests[1]>>)
              /\ is_sn_passed(<<tests[2]>>)
              /\ _last_query_result[1]._sn_pass[sn]

\* the aggregate counts of a compute_all result
counts_of(R) ==
    [summary |-> R.summary,
     tray_summary |-> R.tray_summary,
     sku_rows |-> Range(R.sku_rows),
     breakdown_rows |-> Range(R.breakdown_rows),
     test_flow_totals |-> R.test_flow.totals,
     test_flow_rows |-> Range(R.test_flow.rows)]

\* C12: the aggregate counts of the cached result are the counts compute_all gives on
\* every permutation of the rows of the report, with the same bonepile set and
\* aggregation.
C12_CountsOrderInsensitive ==
    _last_query_result # None =>
        \A p \in Orders(Len(rows)) :
            counts_of(compute_all(permuted(rows, p), aggregation, _bp_sn_cache_set[1]))
                = counts_of(_last_query_result[1])

\* the pass station of a part number as the pass rules name it: the station whose list
\* holds the part number, the unknown_station when no list does
pass_station_by_rules(part_number) ==
    LET listing == {st \in Range(STATIONS_ORDER) :
                       \E j \in 1..Len(DEFAULT_PASS_RULES(st)) :
                           _norm(DEFAULT_PASS_RULES(st)[j]) = _norm(part_number)}
    IN  IF listing = {} THEN DEFAULT_UNKNOWN_STATION ELSE CHOOSE st \in listing : TRUE

\* a row that makes its SN passed
qualifies(r) ==
    /\ _norm(r.result) = S_PASS
    /\ strip(r.part_number) # <<>>
    /\ _norm(r.part_number) # S_UNKNOWN
    /\ _norm(r.station) = pass_station_by_rules(r.part_number)

\* C15: an SN of a cached result is passed exactly when one of its rows has result PASS, a
\* part number that is neither empty nor "UNKNOWN" (whitespace and case aside), and the
\* normalized station equal to the pass station of the row's own part number.
C15_PassRule ==
    _last_query_result # None =>
        LET R == _last_query_result[1]
        IN  \A sn \in DOMAIN R._sn_tests :
                R._sn_pass[sn] <=> \E i \in 1..Len(R._sn_tests[sn]) :
                                       qualifies(R._sn_tests[sn][i])

\* C15 witness: one SN passes on a PASS at the unknown_station with an unlisted part
\* number, another SN has a PASS at the unknown_station with the part number "unknown"
\* and is not passed.
C15_Witness ==
    /\ _last_query_result # None
    /\ Len(rows) = 2
    /\ rows[1].part_number = PN_unknown
    /\ rows[2].part_number = PN_X /\ _norm(rows[2].station) = RIN
    /\ _norm(rows[2].result) = S_PASS
    /\ strip(rows[2].serial_number) = SN_B
    /\ _last_query_result[1]._sn_pass[SN_B]
    /\ ~_last_query_result[1]._sn_pass[SN_A]

\* metric names outside the closed set of compute_sn_list
UnknownMetrics ==
    {M_tested,
     <<"t", "r", "a", "y", "_", "p", "a", "s", "s", "_", "x", "y", "z">>,
     <<"t", "r", "a", "y", "_", "n", "o", "n", "e", "_", "b", "p">>,
     <<"p", "a", "s", "s", "e", "d">>,
     <<"T", "O", "T", "A", "L">>}

\* C16: compute_sn_list on a cached result gives the empty list for every metric name
\* outside the closed set, with and without a station and outcome filter.
C16_UnknownMetricEmpty ==
    _last_query_result # None =>
        \A metric \in UnknownMetrics :
            /\ compute_sn_list(_last_query_result[1], metric, <<>>, <<>>, <<>>, <<>>,
                               aggregation) = <<>>
            /\ compute_sn_list(_last_query_result[1], metric, <<>>, <<>>, FCT, M_pass,
                               aggregation) = <<>>

-----------------------------------------------------------------------------
(* Clear times, unknown metrics and unique trays of the error-stats path     *)

\* the timestamps of the PASS rows of the report of SN sn and station group sg that are
\* later than t_fail
later_passes(sn, sg, t_fail) ==
    {rows[j].test_time_dt[1] :
        j \in {k \in 1..Len(rows) :
                  /\ _norm(rows[k].result) = S_PASS
                  /\ strip(rows[k].serial_number) = sn
                  /\ _station_group(rows[k].station) = sg
                  /\ rows[k].test_time_dt # None
                  /\ rows[k].test_time_dt[1] > t_fail}}

\* a station and its remote variant with the "R_" prefix
remote_pair(a, b) == _norm(a) = S_R_ \o _norm(b) \/ _norm(b) = S_R_ \o _norm(a)

\* C14: every FAIL row of a cached error-stats result with an SN and a station group is
\* resolved at the earliest later PASS of its (SN, station group), with ttc_minutes the
\* minutes between the two, when it has a timestamp and such a PASS exists, and is open
\* without clear_time and ttc_minutes otherwise; a later PASS of the SN at the remote
\* variant of the station of the FAIL, or at the plain variant of its remote station,
\* resolves it.
C14_ClearTimes ==
    _last_error_stats_result # None =>
        \A i \in 1..Len(_last_error_stats_result[1]._fail_rows) :
            LET f == _last_error_stats_result[1]._fail_rows[i]
                sn == strip(f.serial_number)
                later == IF f.test_time_dt = None THEN {}
                         ELSE later_passes(sn, f.station_group, f.test_time_dt[1])
            IN  (sn # <<>> /\ f.station_group # <<>>) =>
                    /\ IF later # {}
                       THEN /\ ~f.open
                            /\ f.clear_time = Some(SetMin(later))
                            /\ f.ttc_minutes = Some(SetMin(later) - f.test_time_dt[1])
                       ELSE /\ f.open
                            /\ f.clear_time = None
                            /\ f.ttc_minutes = None
                    /\ \A j \in 1..Len(rows) :
                          (/\ _norm(rows[j].result) = S_PASS
                           /\ strip(rows[j].serial_number) = sn
                           /\ remote_pair(rows[j].station, f.station)
                           /\ f.test_time_dt # None
                           /\ rows[j].test_time_dt # None
                           /\ rows[j].test_time_dt[1] > f.test_time_dt[1]) => ~f.open

\* C14 witness: a FAIL at "r_ast " at 10:00 followed in the report by the PASS rows of
\* the SN at AST of 10:20 and of 10:05, resolved at 10:05 after 5 minutes.
C14_Witness ==
    /\ _last_error_stats_result # None
    /\ Len(rows) = 3
    /\ rows[1].station = S_r_ast /\ rows[1].test_time_dt = T_plus(0)
    /\ rows[2].station = AST /\ rows[2].test_time_dt = T_plus(20)
    /\ rows[3].station = AST /\ rows[3].test_time_dt = T_plus(5)
    /\ Len(_last_error_stats_result[1]._fail_rows) = 1
    /\ ~_last_error_stats_result[1]._fail_rows[1].open
    /\ _last_error_stats_result[1]._fail_rows[1].clear_time = T_plus(5)
    /\ _last_error_stats_result[1]._fail_rows[1].ttc_minutes = Some(5)

\* metric names compute_error_stats_sn_list does not know
UnknownErrorMetrics ==
    {"", "tested", "total", "FAIL_BY_STATION", "top_error", "ttc", "ttc_by_station_resolved"}

\* C17: compute_error_stats_sn_list on a cached error-stats result gives the empty list
\* for every metric name it does not know, with and without filters and drill_type.
C17_UnknownErrorMetricEmpty ==
    _last_error_stats_result # None =>
        \A metric \in UnknownErrorMetrics :
            /\ compute_error_stats_sn_list(_last_error_stats_result[1], metric,
                    <<>>, <<>>, "", <<>>, <<>>) = <<>>
            /\ compute_error_stats_sn_list(_last_error_stats_result[1], metric,
                    FCT, <<>>, "open", <<>>, S_unique_trays) = <<>>

\* C17 witness: a result with FAIL rows, whose fail_by_station drill-down is not empty.
C17_Witness ==
    /\ _last_error_stats_result # None
    /\ Len(_last_error_stats_result[1]._fail_rows) = 2
    /\ Len(compute_error_stats_sn_list(_last_error_stats_result[1], "fail_by_station",
                                       <<>>, <<>>, "", <<>>, <<>>)) = 2

\* the metric names compute_error_stats_sn_list knows
ErrorMetrics ==
    {"fail_by_station", "top_errors", "station_error", "station_instance", "ttc_overall",
     "ttc_by_station", "ttc_by_station_open", "ttc_by_error"}

\* C20: with drill_type "unique_trays" the drill-down of a cached error-stats result
\* holds at most one row per SN, for every metric it knows.
C20_UniqueTraysOneRowPerSn ==
    _last_error_stats_result # None =>
        \A metric \in ErrorMetrics :
            LET out == compute_error_stats_sn_list(_last_error_stats_result[1], metric,
                           <<>>, <<>>, "", <<>>, S_unique_trays)
            IN  \A i, j \in 1..Len(out) : out[i].sn = out[j].sn => i = j

-----------------------------------------------------------------------------
(* Error keys and their ranking                                             *)

rows_of_key(ek) ==
    SelectSeq(_last_error_stats_result[1]._fail_rows, LAMBDA r : r.error_key = ek)

\* the FAIL events and the unique trays of the error key ek
rank_of(ek) ==
    [fail_events |-> Len(rows_of_key(ek)),
     unique_tray |-> Cardinality({strip(rows_of_key(ek)[i].serial_number) :
                                     i \in 1..Len(rows_of_key(ek))} \ {<<>>})]

\* rank a is not above rank b
rank_leq(a, b) ==
    \/ a.fail_events < b.fail_events
    \/ a.fail_events = b.fail_events /\ a.unique_tray <= b.unique_tray

\* C19: top_k_errors of a cached error-stats result has at most top_k entries, each with
\* the FAIL events and unique trays of its key, in the order of fail_events descending and
\* then unique_tray descending, and no key left out ranks above an entry; for the report
\* with fail_events 5, 5, 3 and unique_tray 2, 4, 1 and top_k = 2 the key with 4 unique
\* trays comes first and the key with 3 FAIL events is left out.
C19_TopKOrder ==
    _last_error_stats_result # None =>
        LET R == _last_error_stats_result[1]
            top == R.top_k_errors
            kept == {top[i].error_code : i \in 1..Len(top)}
            keys == {R._fail_rows[i].error_key : i \in 1..Len(R._fail_rows)}
        IN  /\ Len(top) <= R._top_k
            /\ \A i \in 1..Len(top) :
                  /\ top[i].fail_events = rank_of(top[i].error_code).fail_events
                  /\ top[i].unique_tray = rank_of(top[i].error_code).unique_tray
            /\ \A i, j \in 1..Len(top) : i < j => rank_leq(top[j], top[i])
            /\ \A ek \in keys \ kept : \A i \in 1..Len(top) : rank_leq(rank_of(ek), top[i])
            /\ (rows = RankedReport /\ R._top_k = 2) =>
                  /\ Len(top) = 2
                  /\ top[1].error_code = EC_E2 /\ top[1].unique_tray = 4
                  /\ top[2].error_code = EC_E1
                  /\ EC_E3 \notin kept

\* C19 witness: the report with fail_events 5, 5, 3 and unique_tray 2, 4, 1 ranked with
\* top_k = 2.
C19_Witness ==
    /\ _last_error_stats_result # None
    /\ rows = RankedReport
    /\ _last_error_stats_result[1]._top_k = 2
    /\ Len(_last_error_stats_result[1].top_k_errors) = 2
    /\ _last_error_stats_result[1].top_k_errors[1].fail_events = 5
    /\ _last_error_stats_result[1].top_k_errors[1].unique_tray = 4
    /\ _last_error_stats_result[1].top_k_errors[2].fail_events = 5
    /\ _last_error_stats_result[1].top_k_errors[2].unique_tray = 2

-----------------------------------------------------------------------------
(* The bonepile SN cache under concurrent calls                             *)

\* C18: a load_bp_sn_set call that has its result holds in it every SN of the
\* update_bp_sn_cache calls that had returned when the load call began.
C18_BonepileAppendOnly ==
    \A t \in Threads :
        (bp_thread[t].op = "load" /\ bp_thread[t].at = "done")
            => bp_thread[t].must \subseteq bp_thread[t].ret
-----------------------------------------------------------------------------
(* The latest row of an SN                                                 *)

\* the rows of the report that belong to sn, in report order
rows_of_sn(sn) == SelectSeq(rows, LAMBDA r : strip(r.serial_number) = sn)

\* the positions of the rows of tests with a timestamp
stamped(tests) == {i \in 1..Len(tests) : tests[i].test_time_dt # None}

\* the first position among the rows of tests with the maximum timestamp
first_max(tests) ==
    CHOOSE i \in stamped(tests) :
        /\ \A j \in stamped(tests) : tests[j].test_time_dt[1] <= tests[i].test_time_dt[1]
        /\ \A j \in stamped(tests) :
              tests[j].test_time_dt = tests[i].test_time_dt => i <= j

\* C22: the latest part number of an SN is the part number of the first row, in row
\* order, among its rows with the maximum timestamp ("Unknown" when that part number is
\* blank); without any timestamped row it is "Unknown" and the latest timestamp is None
C22_LatestPart ==
    _last_query_result # None =>
        LET c == _last_query_result[1]
        IN  \A sn \in DOMAIN c._sn_tests :
                LET tests == rows_of_sn(sn)
                IN  IF stamped(tests) = {}
                    THEN /\ c._sn_latest_part[sn] = S_Unknown
                         /\ c._sn_latest_dt[sn] = None
                    ELSE LET r == tests[first_max(tests)]
                         IN  /\ c._sn_latest_part[sn]
                                    = (IF strip(r.part_number) = <<>> THEN S_Unknown
                                       ELSE strip(r.part_number))
                             /\ c._sn_latest_dt[sn] = r.test_time_dt

\* a query over a report in which two rows of one SN carry the same, maximum timestamp
\* and different part numbers
C22_Witness ==
    /\ _last_query_result # None
    /\ \E i, j \in 1..Len(rows) :
          /\ i < j
          /\ strip(rows[i].serial_number) # <<>>
          /\ strip(rows[i].serial_number) = strip(rows[j].serial_number)
          /\ rows[i].test_time_dt # None
          /\ rows[i].test_time_dt = rows[j].test_time_dt
          /\ strip(rows[i].part_number) # strip(rows[j].part_number)
          /\ _last_query_result[1]._sn_latest_part[strip(rows[i].serial_number)]
                = strip(rows[i].part_number)

-----------------------------------------------------------------------------
(* The breakdown by period                                                 *)

\* the period of a timestamped row
period_of(r) == _date_to_period(_row_to_ca_date(r.test_time_dt[1]), aggregation)

\* the SNs with at least one timestamped row in the period
sns_tested_in(period) ==
    {strip(rows[i].serial_number) :
        i \in {j \in 1..Len(rows) : /\ strip(rows[j].serial_number) # <<>>
                                     /\ rows[j].test_time_dt # None
                                     /\ period_of(rows[j]) = period}}

\* the periods in which some SN has a timestamped row
periods_tested ==
    {period_of(rows[i]) :
        i \in {j \in 1..Len(rows) : /\ strip(rows[j].serial_number) # <<>>
                                     /\ rows[j].test_time_dt # None}}

\* C23: breakdown_rows holds one row for every period in which some SN has a
\* timestamped row, its tested is the number of SNs with a timestamped row in the
\* period, bonepile + fresh = tested and passed <= tested in every row, and the periods
\* are distinct and ascending
C23_Breakdown ==
    _last_query_result # None =>
        LET b == _last_query_result[1].breakdown_rows
        IN  /\ {b[i].period : i \in 1..Len(b)} = periods_tested
            /\ \A i \in 1..Len(b) :
                  /\ b[i].tested = Cardinality(sns_tested_in(b[i].period))
                  /\ b[i].bonepile + b[i].fresh = b[i].tested
                  /\ b[i].passed <= b[i].tested
            /\ \A i, j \in 1..Len(b) : i < j => str_lt(b[i].period, b[j].period)

\* a query over a report in which one SN has timestamped rows in two periods: both
\* breakdown rows count it
C23_Witness ==
    /\ _last_query_result # None
    /\ Len(_last_query_result[1].breakdown_rows) = 2
    /\ \E sn \in DOMAIN _last_query_result[1]._sn_tests :
          \A i \in 1..2 :
              /\ sn \in sns_tested_in(_last_query_result[1].breakdown_rows[i].period)
              /\ _last_query_result[1].breakdown_rows[i].tested = 1

-----------------------------------------------------------------------------
(* The test-flow matrix                                                    *)

\* the SNs with at least one row of the outcome at the station
sns_with(st, pf) ==
    {strip(rows[i].serial_number) :
        i \in {j \in 1..Len(rows) : /\ strip(rows[j].serial_number) # <<>>
                                     /\ _norm(rows[j].station) = st
                                     /\ _row_result_to_pf(rows[j].result) = pf}}

\* C24: the pass count of a station of the station order is the number of SNs with at
\* least one PASS row at it, its fail count the number of SNs with at least one FAIL row
\* at it, so that an SN with both is in both counts; the matrix has no other station,
\* and the counts of the SKU rows add up to the totals
C24_TestFlowCounts ==
    _last_query_result # None =>
        LET tf == _last_query_result[1].test_flow
        IN  /\ DOMAIN tf.totals = Range(STATIONS_ORDER)
            /\ \A st \in Range(STATIONS_ORDER) :
                  /\ tf.totals[st].pass = Cardinality(sns_with(st, "P"))
                  /\ tf.totals[st].fail = Cardinality(sns_with(st, "F"))
                  /\ sum([i \in 1..Len(tf.rows) |-> tf.rows[i].stations[st].pass])
                        = tf.totals[st].pass
                  /\ sum([i \in 1..Len(tf.rows) |-> tf.rows[i].stations[st].fail])
                        = tf.totals[st].fail

\* a query over a report in which one SN has a PASS and a FAIL row at one station: the
\* station counts it once as passed and once as failed
C24_Witness ==
    /\ _last_query_result # None
    /\ \E st \in Range(STATIONS_ORDER) :
          /\ sns_with(st, "P") \cap sns_with(st, "F") # {}
          /\ _last_query_result[1].test_flow.totals[st] = [pass |-> 1, fail |-> 1]

\* the SNs with at least one row at the station whose result is exactly the string
sns_with_exactly(st, result) ==
    {strip(rows[i].serial_number) :
        i \in {j \in 1..Len(rows) : /\ strip(rows[j].serial_number) # <<>>
                                     /\ _norm(rows[j].station) = st
                                     /\ rows[j].result = result}}

\* C25: only rows whose result is exactly "PASS" or exactly "FAIL" contribute to the
\* test-flow matrix: a row whose result differs in case or surrounding whitespace is
\* counted at no station
C25_ExactResult ==
    _last_query_result # None =>
        LET tf == _last_query_result[1].test_flow
        IN  \A st \in Range(STATIONS_ORDER) :
                /\ tf.totals[st].pass = Cardinality(sns_with_exactly(st, S_PASS))
                /\ tf.totals[st].fail = Cardinality(sns_with_exactly(st, S_FAIL))

-----------------------------------------------------------------------------
(* Rows without timestamp                                                  *)

\* the SNs of the report
report_sns == {strip(rows[i].serial_number) : i \in 1..Len(rows)} \ {<<>>}

\* the SNs none of whose rows has a timestamp
untimed_sns == {sn \in report_sns : stamped(rows_of_sn(sn)) = {}}

\* the rows of an SN that have a timestamp
timed_rows_of(sn) == SelectSeq(rows_of_sn(sn), LAMBDA r : r.test_time_dt # None)

\* the tested count of the "Unknown" row of sku_rows, 0 without such a row
unknown_sku_tested(sku_rows) ==
    sum([i \in 1..Len(sku_rows) |->
            IF sku_rows[i].sku = S_Unknown THEN sku_rows[i].tested ELSE 0])

\* C26: an SN without any timestamped row is counted in summary.total, in the tray
\* summary and in the "Unknown" SKU row, is counted in no breakdown row, and its FAIL
\* rows are open; the latest row of an SN is the one chosen among its timestamped rows
\* alone
C26_UntimedRows ==
    _last_query_result # None =>
        LET c == _last_query_result[1]
            inferred == infer_clear_times(rows)
        IN  /\ c.summary.total = Cardinality(report_sns)
            /\ c.tray_summary.tested.total = Cardinality(report_sns)
            /\ unknown_sku_tested(c.sku_rows) >= Cardinality(untimed_sns)
            /\ \A sn \in untimed_sns : c._sn_latest_part[sn] = S_Unknown
            /\ \A i \in 1..Len(c.breakdown_rows) :
                  c.breakdown_rows[i].tested <= Cardinality(report_sns \ untimed_sns)
            /\ (untimed_sns = report_sns => c.breakdown_rows = <<>>)
            /\ \A i \in 1..Len(inferred) :
                  (/\ _norm(inferred[i].result) = S_FAIL
                   /\ strip(inferred[i].serial_number) \in untimed_sns)
                      => inferred[i].open /\ inferred[i].clear_time = None
            /\ \A sn \in report_sns \ untimed_sns :
                  LET timed == timed_rows_of(sn)
                      r == timed[first_max(timed)]
                  IN  /\ c._sn_latest_dt[sn] = r.test_time_dt
                      /\ c._sn_latest_part[sn]
                            = (IF strip(r.part_number) = <<>> THEN S_Unknown
                               ELSE strip(r.part_number))

\* a query over a report with a FAIL row of an SN without timestamps and a timestamped
\* row of another SN: the first SN is counted under "Unknown", the breakdown counts the
\* other alone
C26_Witness ==
    /\ _last_query_result # None
    /\ \E i \in 1..Len(rows) :
          /\ strip(rows[i].serial_number) \in untimed_sns
          /\ rows[i].result = S_FAIL
          /\ strip(rows[i].part_number) # S_Unknown
    /\ report_sns # untimed_sns
    /\ _last_query_result[1].summary.total = 2
    /\ unknown_sku_tested(_last_query_result[1].sku_rows) = 1
    /\ Len(_last_query_result[1].breakdown_rows) = 1
    /\ _last_query_result[1].breakdown_rows[1].tested = 1

-----------------------------------------------------------------------------
(* Rows without serial number in the error statistics                      *)

\* a row with a serial number
has_sn(r) == strip(r.serial_number) # <<>>

\* the fail_events of fail_by_station and of top_k_errors, by station and by error key
event_counts(stats) ==
    [fail_by_station |->
        [j \in 1..Len(stats.fail_by_station) |->
            <<stats.fail_by_station[j].station_group, stats.fail_by_station[j].fail_events>>],
     top_k_errors |->
        [j \in 1..Len(stats.top_k_errors) |->
            <<stats.top_k_errors[j].error_code, stats.top_k_errors[j].fail_events>>]]

\* C21: a row with a missing or blank serial_number contributes to no count: the
\* fail_events of fail_by_station and of top_k_errors are those of the report without
\* its rows that have no serial number
C21_BlankSnNoCount ==
    _last_error_stats_result # None =>
        LET stats == _last_error_stats_result[1]
        IN  event_counts(stats)
                = event_counts(compute_error_stats(SelectSeq(rows, has_sn), stats._top_k))

-----------------------------------------------------------------------------
(* Resolution of the FAIL rows                                             *)

\* two timestamped FAIL rows of one (SN, station group), the first not later than the
\* second
same_key_in_order(f1, f2) ==
    /\ strip(f1.serial_number) = strip(f2.serial_number)
    /\ f1.station_group = f2.station_group
    /\ f1.test_time_dt # None
    /\ f2.test_time_dt # None
    /\ f1.test_time_dt[1] <= f2.test_time_dt[1]

\* C28: of two FAIL rows of one (SN, station group) with timestamps t1 <= t2, the
\* earlier is resolved when the later is, at a clear_time not later than that of the
\* later, and the later is open when the earlier is
C28_MonotoneResolution ==
    _last_error_stats_result # None =>
        LET fr == _last_error_stats_result[1]._fail_rows
        IN  \A i, j \in 1..Len(fr) :
                (i # j /\ same_key_in_order(fr[i], fr[j])) =>
                    /\ ~fr[j].open =>
                          /\ ~fr[i].open
                          /\ fr[i].clear_time # None
                          /\ fr[j].clear_time # None
                          /\ fr[i].clear_time[1] <= fr[j].clear_time[1]
                    /\ fr[i].open => fr[j].open

\* error statistics over a report in which one PASS clears two earlier FAIL rows of its
\* (SN, station group) that have different timestamps
C28_Witness ==
    /\ _last_error_stats_result # None
    /\ \E i, j \in 1..Len(_last_error_stats_result[1]._fail_rows) :
          LET f1 == _last_error_stats_result[1]._fail_rows[i]
              f2 == _last_error_stats_result[1]._fail_rows[j]
          IN  /\ same_key_in_order(f1, f2)
              /\ f1.test_time_dt[1] < f2.test_time_dt[1]
              /\ ~f1.open
              /\ ~f2.open
              /\ f1.clear_time = f2.clear_time
              /\ f1.clear_time # None

\* C29: in a result of compute_error_stats every FAIL row is open exactly when it has no
\* ttc_minutes and exactly when it has no clear_time, a resolved row has ttc_minutes >= 0,
\* _fail_rows holds the FAIL rows of the report, and resolved_fail_events and
\* open_fail_events add up to their number
C29_ResolvedOrOpen ==
    _last_error_stats_result # None =>
        LET stats == _last_error_stats_result[1]
            fr == stats._fail_rows
        IN  /\ \A i \in 1..Len(fr) :
                  /\ fr[i].open <=> fr[i].ttc_minutes = None
                  /\ fr[i].open <=> fr[i].clear_time = None
                  /\ ~fr[i].open => fr[i].ttc_minutes[1] >= 0
            /\ Len(fr) = Cardinality({i \in 1..Len(rows) : _norm(rows[i].result) = S_FAIL})
            /\ stats.ttc_overall.resolved_fail_events + stats.ttc_overall.open_fail_events
                  = Len(fr)

\* error statistics over a report with a resolved FAIL row and an open FAIL row without
\* timestamp
C29_Witness ==
    /\ _last_error_stats_result # None
    /\ _last_error_stats_result[1].ttc_overall.resolved_fail_events = 1
    /\ _last_error_stats_result[1].ttc_overall.open_fail_events = 1
    /\ \E i \in 1..Len(_last_error_stats_result[1]._fail_rows) :
          /\ _last_error_stats_result[1]._fail_rows[i].open
          /\ _last_error_stats_result[1]._fail_rows[i].test_time_dt = None

-----------------------------------------------------------------------------
(* Totals of the tables                                                    *)

\* app.py line 407: total_fail_events of the response
total_fail_events(stats) == Len(stats._fail_rows)

\* C30: the fail_events of the rows of fail_by_station add up to total_fail_events, the
\* number of FAIL rows of the result, and the column of every top-K error key in
\* station_error_matrix adds up to its fail_events in top_k_errors, also when FAIL rows
\* have a blank station
C30_TableTotals ==
    _last_error_stats_result # None =>
        LET stats == _last_error_stats_result[1]
            fbs == stats.fail_by_station
            m == stats.station_error_matrix
        IN  /\ sum([j \in 1..Len(fbs) |-> fbs[j].fail_events]) = total_fail_events(stats)
            /\ \A k \in 1..Len(stats.top_k_errors) :
                  sum([j \in 1..Len(m) |-> m[j].counts[stats.top_k_errors[k].error_code]])
                      = stats.top_k_errors[k].fail_events

-----------------------------------------------------------------------------
(* The cached query result under concurrent requests                       *)

\* the request lacks a start or an end, or its end is before its start
range_rejected(req) ==
    \/ req.user_start = None
    \/ req.user_end = None
    \/ req.user_end[1] < req.user_start[1]

\* the calls that wrote the cache
writers == {cache_writes[k].call : k \in 1..Len(cache_writes)}

\* C27: under every interleaving of /api/query and /api/sn-list requests, the result a
\* drill-down request reads is absent, and the request answers 400, or is the result of
\* the last cache write before the read, the complete result of one compute_all call;
\* the cache changes through these writes alone, a query whose range is rejected or
\* whose SFC fetch fails writes nothing, and the error-stats cache stays as it was
C27_CacheReads ==
    /\ _last_query_result
          = (IF cache_writes = <<>> THEN None
             ELSE Some(cache_writes[Len(cache_writes)].result))
    /\ \A k \in 1..Len(cache_writes) :
          LET w == cache_writes[k]
          IN  /\ ~range_rejected(w)
              /\ w.result = compute_all(rows_in_range(SfcReport, w.user_start, w.user_end),
                                        w.agg, bp_sn_cache_file)
    /\ _last_error_stats_result = None
    /\ \A t \in Threads :
          LET req == req_thread[t]
          IN  /\ (req.op = "query" /\ (range_rejected(req) \/ req.status \in {400, 502}))
                    => req.call \notin writers
              /\ (req.op = "sn_list" /\ req.at \in {"answer", "done"}) =>
                    /\ req.computed = (IF req.seen = 0 THEN None
                                       ELSE Some(cache_writes[req.seen].result))
                    /\ req.at = "done" => (req.status = 400 <=> req.computed = None)
                    /\ req.at = "done" => (req.status = 200 <=> req.computed # None)

\* a drill-down request has answered from the result of the first query while the
\* second query, of another range, wrote the cache after its read
C27_Witness ==
    /\ Len(cache_writes) = 2
    /\ \E t \in Threads :
          /\ req_thread[t].op = "sn_list"
          /\ req_thread[t].at = "done"
          /\ req_thread[t].status = 200
          /\ req_thread[t].seen = 1
          /\ req_thread[t].computed = Some(cache_writes[1].result)
          /\ req_thread[t].computed # _last_query_result
          /\ req_thread[t].count = 2

====
